---- MODULE Spec2Model ----
(***************************************************************************)
(* FiberFoam: voxel-to-hex-mesh construction (HexMeshBuilder,              *)
(* Connectivity), the online convergence monitor (ConvergenceChecker),     *)
(* the voxel grid (VoxelArray), buffer padding (FiberFreeRegion), region   *)
(* tracking (RegionTracker) and the permeability calculator                *)
(* (PermeabilityCalculator).                                               *)
(*                                                                         *)
(* Vectors are TLA+ sequences: C++ element v[i] is v[i+1] here.  Cell,     *)
(* point and face indices stored in the data keep their 0-based C++        *)
(* values.  A std::map is a function whose DOMAIN is its key set, and is   *)
(* traversed in ascending key order.                                       *)
(*                                                                         *)
(* Floating point.  Every double produced by generatePoints and            *)
(* classifyBoundaryPatches is an integer multiple of ulp(voxelSize)/2, so  *)
(* a double is carried as that integer ("units") and each C++ operation is *)
(* the exact integer operation followed by RoundFP, round-to-nearest-even  *)
(* to Prec significant bits.  voxelSize = 2 * voxelMant units, where       *)
(* voxelMant is its significand; the binary exponent of voxelSize cancels. *)
(* With Prec = 53 this is IEEE double arithmetic bit for bit; the model    *)
(* runs it at a reduced Prec.                                              *)
(***************************************************************************)
EXTENDS Integers, Sequences, FiniteSets, TLC

\* ------------------------------------------------------------------ bounds
MaxDim == 3          \* largest extent of an enumerated grid along one axis
MaxVoxels == 4       \* largest nx*ny*nz of an enumerated grid
MaxN == 2            \* largest all-fluid N x N x N cube
Prec == 4            \* significand bits of the modelled floating point
MaxMantStep == 1     \* voxelSize significands above 1.0 that are enumerated
MaxSamples == 4      \* longest sample history fed to the monitor
MaxValue == 1        \* largest permeability sample value (the smallest is -1)
MaxWindow == 3       \* largest regression window (the smallest is 2)
MaxTwiceVoxels == 2  \* largest nx*ny*nz of a grid that is built twice
MaxConstSamples == 20 \* samples fed to a monitor in a constant-value run
MaxConstWindow == 5  \* largest regression window in a constant-value run
MaxRes == 3          \* largest target resolution of a resample
MaxLayers == 2       \* largest inlet or outlet layer count of a padding
MaxCells == 2        \* most cells handed to the permeability calculator
MaxMaskDim == 2      \* largest extent of a region mask handed to a tracker
MaxCellIndex == 3    \* largest key of a cell map handed to filterCellMap

VARIABLES
    geometry_,            \* HexMeshBuilder::geometry_  (VoxelArray)
    opts_,                \* HexMeshBuilder::opts_
    mesh_,                \* HexMeshBuilder::mesh_      (MeshData)
    cellVertexIndices_,   \* HexMeshBuilder::cellVertexIndices_
    pc,                   \* position inside build()
    firstMesh,            \* mesh returned by an earlier build of the same input
    copts_,               \* ConvergenceChecker::opts_
    iterations_,          \* ConvergenceChecker::iterations_
    permeabilities_,      \* ConvergenceChecker::permeabilities_
    slope_, predicted_, error_, converged_, dirty_,
    returned,             \* what the latest query since the last addValue returned
    voxelArray,           \* a VoxelArray object: nx_, ny_, nz_, data_
    result,               \* outcome of the latest call on voxelArray
    padded,               \* the PaddedGeometry returned by FiberFreeRegion::pad
    tracker,              \* a RegionTracker object
    popts_,               \* PermeabilityCalculator::opts_
    permResult            \* outcome of the latest PermeabilityCalculator call

meshVars == <<geometry_, opts_, mesh_, cellVertexIndices_, pc, firstMesh>>
convVars == <<copts_, iterations_, permeabilities_,
              slope_, predicted_, error_, converged_, dirty_, returned>>
voxVars == <<voxelArray, result, padded, tracker>>
permVars == <<popts_, permResult>>
vars == <<geometry_, opts_, mesh_, cellVertexIndices_, pc, firstMesh,
          copts_, iterations_, permeabilities_,
          slope_, predicted_, error_, converged_, dirty_, returned,
          voxelArray, result, padded, tracker,
          popts_, permResult>>

\* ------------------------------------------------------------- generic help
Pow2(k) == 2^k

Abs(n) == IF n < 0 THEN -n ELSE n

RECURSIVE SetToSortedSeq(_)
\* ascending enumeration of a finite set of integers (std::map / std::set order)
SetToSortedSeq(S) ==
    IF S = {} THEN <<>>
    ELSE LET m == CHOOSE a \in S : \A b \in S : a <= b
         IN  <<m>> \o SetToSortedSeq(S \ {m})

Reverse(s) == [i \in 1..Len(s) |-> s[Len(s) + 1 - i]]

\* Lexicographic "less" on integer tuples of equal length
TupleLess(a, b) ==
    \E i \in 1..Len(a) :
        /\ a[i] < b[i]
        /\ \A j \in 1..(i - 1) : a[j] = b[j]

\* The orders std::sort may leave elements that compare equal in: a sort is
\* only required to order by the comparator; the relative order of equal
\* elements is unspecified.
SortTies == {"keep", "reverse"}

\* std::sort of s under the strict weak order "key(a) < key(b)" (keys are
\* integer tuples); equal elements end up as `ties` says.  The elements s[i..]
\* are inserted one by one into the ordered sequence acc.
\* number of elements of acc that stay ahead of e
aheadOf(acc, e, key(_), ties) ==
    IF ties = "keep"
    THEN Cardinality({j \in 1..Len(acc) : ~TupleLess(key(e), key(acc[j]))})
    ELSE Cardinality({j \in 1..Len(acc) : TupleLess(key(acc[j]), key(e))})

insertAt(acc, e, p) == SubSeq(acc, 1, p) \o <<e>> \o SubSeq(acc, p + 1, Len(acc))

\* the length test makes acc a computed value before the next element is
\* looked at (acc holds the i - 1 elements inserted so far)
RECURSIVE sortInto(_, _, _, _, _)
sortInto(s, i, acc, key(_), ties) ==
    IF i > Len(s) THEN acc
    ELSE IF Len(acc) = i - 1
         THEN sortInto(s, i + 1, insertAt(acc, s[i], aheadOf(acc, s[i], key, ties)),
                       key, ties)
         ELSE <<>>

stdSort(s, key(_), ties) == sortInto(s, 1, <<>>, key, ties)

\* ----------------------------------------------------------- floating point
\* Round-to-nearest, ties-to-even, to Prec significant bits (one IEEE
\* operation's rounding step).
RECURSIVE BitLength(_)
BitLength(a) == IF a = 0 THEN 0 ELSE 1 + BitLength(a \div 2)

RoundFP(n) ==
    LET a == Abs(n)
    IN  IF a < Pow2(Prec) THEN n
        ELSE LET k == BitLength(a) - Prec
                 q == a \div Pow2(k)
                 r == a % Pow2(k)
                 h == Pow2(k - 1)
                 up == (r > h) \/ (r = h /\ q % 2 = 1)
                 m == (IF up THEN q + 1 ELSE q) * Pow2(k)
             IN  IF n < 0 THEN -m ELSE m

\* opts_.voxelSize and opts_.voxelSize / 2.0 in units (the halving is exact)
voxelSize(o) == 2 * o.voxelMant
halfVoxel(o) == o.voxelMant

\* ------------------------------------------------------------- VoxelArray
size(g) == g.nx * g.ny * g.nz

at(g, x, y, z) == g.data[x + g.nx * (y + g.ny * z) + 1]

\* ---------------------------------------------------------- HexMeshBuilder
FlowDirection == {"X", "Y", "Z"}

\* CellData for voxel (x,y,z); no field arrays are supplied to the builder
buildCellEntry(x, y, z) == [coord |-> <<x, y, z>>]

\* generateCellMap: z, y, x loop nest; step t of the traversal visits
\* x = t mod nx, y = (t div nx) mod ny, z = t div (nx*ny).  Returns the cell
\* map built from steps t.., given that cellIndex cells exist already.
RECURSIVE cellMapFrom(_, _, _)
cellMapFrom(g, t, cellIndex) ==
    IF t >= size(g) THEN <<>>
    ELSE LET x == t % g.nx
             y == (t \div g.nx) % g.ny
             z == t \div (g.nx * g.ny)
         IN  IF at(g, x, y, z) # 0
             THEN <<buildCellEntry(x, y, z)>> \o cellMapFrom(g, t + 1, cellIndex + 1)
             ELSE cellMapFrom(g, t + 1, cellIndex)

\* the std::map<int, CellData> with keys 0..n-1
cellMapOf(g) ==
    LET cells == cellMapFrom(g, 0, 0)
    IN  [i \in 0..(Len(cells) - 1) |-> cells[i + 1]]

emptyMesh ==
    [points |-> <<>>, faces |-> <<>>, owner |-> <<>>, neighbour |-> <<>>,
     nInternalFaces |-> 0, boundaryPatches |-> <<>>, cellMap |-> <<>>,
     nCells |-> 0]

\* ------------------------------------------------------------ Connectivity
\* mutant of NEIGHBOR_OFFSETS: the two z offsets are missing
NEIGHBOR_OFFSETS_planar ==
    << <<-1, 0, 0>>, <<1, 0, 0>>,
       <<0, -1, 0>>, <<0, 1, 0>> >>

\* 6-connected neighbor offsets
NEIGHBOR_OFFSETS ==
    << <<-1, 0, 0>>, <<1, 0, 0>>,
       <<0, -1, 0>>, <<0, 1, 0>>,
       <<0, 0, -1>>, <<0, 0, 1>> >>

\* coordToIndex: coord -> cell index (a later insertion of the same coord
\* overwrites an earlier one)
coordToIndex(cellMap, coord) ==
    LET hits == {idx \in DOMAIN cellMap : cellMap[idx].coord = coord}
    IN  IF hits = {} THEN -1
        ELSE CHOOSE idx \in hits : \A other \in hits : other <= idx

\* adjacency[idx]: neighbours found, in NEIGHBOR_OFFSETS order
RECURSIVE adjacencyFrom(_, _, _)
adjacencyFrom(cellMap, idx, k) ==
    IF k > Len(NEIGHBOR_OFFSETS) THEN <<>>
    ELSE LET off == NEIGHBOR_OFFSETS[k]
             c == cellMap[idx].coord
             neighborCoord == <<c[1] + off[1], c[2] + off[2], c[3] + off[3]>>
             it == coordToIndex(cellMap, neighborCoord)
         IN  (IF it # -1 THEN <<it>> ELSE <<>>) \o adjacencyFrom(cellMap, idx, k + 1)

adjacency(cellMap, idx) == adjacencyFrom(cellMap, idx, 1)

\* one pass over the neighbours of `current`: push the unvisited ones
RECURSIVE pushUnvisited(_, _, _)
pushUnvisited(nbrs, queue, visited) ==
    IF nbrs = <<>> THEN [queue |-> queue, visited |-> visited]
    ELSE IF Head(nbrs) \in visited
         THEN pushUnvisited(Tail(nbrs), queue, visited)
         ELSE pushUnvisited(Tail(nbrs), Append(queue, Head(nbrs)),
                            visited \cup {Head(nbrs)})

\* the BFS while-loop: returns the component and the visited set
RECURSIVE bfs(_, _, _, _)
bfs(cellMap, queue, visited, component) ==
    IF queue = <<>> THEN [component |-> component, visited |-> visited]
    ELSE LET current == Head(queue)
             st == pushUnvisited(adjacency(cellMap, current), Tail(queue), visited)
         IN  bfs(cellMap, st.queue, st.visited, component \cup {current})

\* mutant of replacesLargest: a later component of equal size wins
replacesLargest_orEqual(component, largestComponent) ==
    Cardinality(component) >= Cardinality(largestComponent)

\* "if (component.size() > largestComponent.size())"
replacesLargest(component, largestComponent) ==
    Cardinality(component) > Cardinality(largestComponent)

\* the loop over start cells, in ascending cell index
RECURSIVE componentLoop(_, _, _, _)
componentLoop(cellMap, starts, visited, largestComponent) ==
    IF starts = <<>> THEN largestComponent
    ELSE LET startIdx == Head(starts)
         IN  IF startIdx \in visited
             THEN componentLoop(cellMap, Tail(starts), visited, largestComponent)
             ELSE LET r == bfs(cellMap, <<startIdx>>, visited \cup {startIdx}, {})
                  IN  componentLoop(cellMap, Tail(starts), r.visited,
                          IF replacesLargest(r.component, largestComponent)
                          THEN r.component ELSE largestComponent)

findLargestComponent(cellMap) ==
    IF DOMAIN cellMap = {} THEN {}
    ELSE componentLoop(cellMap, SetToSortedSeq(DOMAIN cellMap), {}, {})

\* mutant of filterCellMap: survivors keep their old index
filterCellMap_keepIndex(cellMap, keepSet) ==
    [idx \in {i \in DOMAIN cellMap : i \in keepSet} |-> cellMap[idx]]

\* mutant of filterCellMap: survivors are re-indexed but their region label
\* is reset to the CellData default
filterCellMap_resetRegion(cellMap, keepSet) ==
    LET kept == SetToSortedSeq({idx \in DOMAIN cellMap : idx \in keepSet})
    IN  [newIndex \in 0..(Len(kept) - 1) |->
            [cellMap[kept[newIndex + 1]] EXCEPT !.region = 0]]

\* Remove cells not in keepSet, reindex from 0
filterCellMap(cellMap, keepSet) ==
    LET kept == SetToSortedSeq({idx \in DOMAIN cellMap : idx \in keepSet})
    IN  [newIndex \in 0..(Len(kept) - 1) |-> cellMap[kept[newIndex + 1]]]

\* ------------------------------------------------- generatePoints (step 3)
\* Point3D::operator< orders by (z, y, x)
Point3DKey(p) == <<p.z, p.y, p.x>>

Point3DLess(a, b) == TupleLess(Point3DKey(a), Point3DKey(b))

\* centre of the cell at voxel coordinate c along one axis:
\*   coord * vs + vs / 2.0   (a rounded product, then a rounded sum)
centerOf(c, o) == RoundFP(RoundFP(c * voxelSize(o)) + halfVoxel(o))

\* the 8 hex vertices at +/- voxelSize/2, in the order of the source
generateCellVertices(center, o) ==
    LET vs == halfVoxel(o)
        lo(a) == RoundFP(a - vs)
        hi(a) == RoundFP(a + vs)
        cx == center.x
        cy == center.y
        cz == center.z
    IN  << [x |-> lo(cx), y |-> lo(cy), z |-> lo(cz)],
           [x |-> hi(cx), y |-> lo(cy), z |-> lo(cz)],
           [x |-> hi(cx), y |-> lo(cy), z |-> hi(cz)],
           [x |-> lo(cx), y |-> lo(cy), z |-> hi(cz)],
           [x |-> lo(cx), y |-> hi(cy), z |-> lo(cz)],
           [x |-> hi(cx), y |-> hi(cy), z |-> lo(cz)],
           [x |-> hi(cx), y |-> hi(cy), z |-> hi(cz)],
           [x |-> lo(cx), y |-> hi(cy), z |-> hi(cz)] >>

\* sort the 8 vertices by (z, y, x); vertices that compare equal are equal
sortVertices(verts) == stdSort(verts, Point3DKey, "keep")

\* cellVertices[cellIdx]: the 8 sorted vertices of a cell
cellVerticesOf(cell, o) ==
    LET center == [x |-> centerOf(cell.coord[1], o),
                   y |-> centerOf(cell.coord[2], o),
                   z |-> centerOf(cell.coord[3], o)]
    IN  sortVertices(generateCellVertices(center, o))

\* uniquePointsSet.insert(pt) on the ordered content of a std::set<Point3D>
setInsert(ordered, pt) ==
    LET p == Cardinality({j \in 1..Len(ordered) : Point3DLess(ordered[j], pt)})
    IN  IF p < Len(ordered) /\ ordered[p + 1] = pt THEN ordered
        ELSE SubSeq(ordered, 1, p) \o <<pt>> \o SubSeq(ordered, p + 1, Len(ordered))

\* step 3b, inner loop: insert the 8 vertices of one cell
insertVerts(ordered, verts) ==
    LET s1 == setInsert(ordered, verts[1])
        s2 == setInsert(s1, verts[2])
        s3 == setInsert(s2, verts[3])
        s4 == setInsert(s3, verts[4])
        s5 == setInsert(s4, verts[5])
        s6 == setInsert(s5, verts[6])
        s7 == setInsert(s6, verts[7])
    IN  setInsert(s7, verts[8])

\* step 3b, outer loop: cells i.. in vector order; the length test makes
\* `ordered` a computed value before the next cell is looked at
RECURSIVE insertAll(_, _, _, _)
insertAll(cellVertices, cells, i, ordered) ==
    IF i > Len(cells) THEN ordered
    ELSE IF Len(ordered) >= 0
         THEN insertAll(cellVertices, cells, i + 1,
                        insertVerts(ordered, cellVertices[cells[i]]))
         ELSE <<>>

\* pointToIndex.at(pt): index of pt in mesh_.points
pointToIndex(points, pt) == (CHOOSE i \in 1..Len(points) : points[i] = pt) - 1

\* step 3a: cellVertices, the sorted vertices of every cell
cellVerticesMap(cellMap, o) ==
    [c \in DOMAIN cellMap |-> cellVerticesOf(cellMap[c], o)] @@ <<>>

\* steps 3c-3d: mesh_.points and cellVertexIndices_ from the unique points
indexPoints(cellVertices, points) ==
    [points |-> points,
     cellVertexIndices |->
        [c \in DOMAIN cellVertices |->
            [v \in 1..8 |-> pointToIndex(points, cellVertices[c][v])]] @@ <<>>]

collectPoints(cellVertices) ==
    indexPoints(cellVertices,
                insertAll(cellVertices, SetToSortedSeq(DOMAIN cellVertices), 1, <<>>))

\* returns mesh_.points and cellVertexIndices_
generatePoints(cellMap, o) == collectPoints(cellVerticesMap(cellMap, o))

\* -------------------------------------------------- generateFaces (step 4)
\* mutant of HEX_FACE_DEFS: the left (-x) entry repeats the right (+x) one
HEX_FACE_DEFS_repeated ==
    << <<1, 3, 7, 5>>,
       <<2, 6, 7, 3>>,
       <<4, 5, 7, 6>>,
       <<1, 3, 7, 5>>,
       <<0, 1, 5, 4>>,
       <<0, 2, 3, 1>> >>

\* The 6 hex face definitions (local vertex indices into sorted 8-vertex array)
HEX_FACE_DEFS ==
    << <<1, 3, 7, 5>>,   \* right  (+x)
       <<2, 6, 7, 3>>,   \* back   (+y)
       <<4, 5, 7, 6>>,   \* top    (+z)
       <<0, 4, 6, 2>>,   \* left   (-x)
       <<0, 1, 5, 4>>,   \* front  (-y)
       <<0, 2, 3, 1>> >> \* bottom (-z)

\* Make a canonical (sorted) face key from the original 4 vertex indices
makeSortedKey(face) == stdSort(face, LAMBDA v : <<v>>, "keep")

\* The order in which iterating a std::unordered_map visits its entries is
\* unspecified: it is fixed by the standard library's hash table, not by the
\* program.  The model lets it be the insertion order or its reverse.
HashOrders == {"insertion", "reverse"}

unorderedIteration(inserted, hashOrder) ==
    IF hashOrder = "insertion" THEN inserted ELSE Reverse(inserted)

\* step 4a, the loop nest: discovery d is face ((d-1) mod 6) of cell
\* number (d-1) div 6
discoveredFace(cells, cvi, d) ==
    [cell |-> cells[((d - 1) \div 6) + 1],
     face |-> [k \in 1..4 |->
                 cvi[cells[((d - 1) \div 6) + 1]][HEX_FACE_DEFS[((d - 1) % 6) + 1][k] + 1]]]

keyedFace(f) == [face |-> f.face, key |-> makeSortedKey(f.face), cell |-> f.cell]

discoveries(cells, cvi) ==
    [d \in 1..(6 * Len(cells)) |-> keyedFace(discoveredFace(cells, cvi, d))] \o <<>>

\* mutant of firstSeen: the vertices of the last cell that generated a key
\* are stored
firstSeen_last(disc) ==
    SetToSortedSeq({d \in 1..Len(disc) :
                      \A e \in (d + 1)..Len(disc) : disc[e].key # disc[d].key})

\* the discoveries that insert a new key into faceMap
firstSeen(disc) ==
    SetToSortedSeq({d \in 1..Len(disc) : \A e \in 1..(d - 1) : disc[e].key # disc[d].key})

\* the cells pushed onto the entry of key, in discovery order
cellsOfKey(disc, key) ==
    SelectSeq([e \in 1..Len(disc) |-> IF disc[e].key = key THEN disc[e].cell ELSE -1],
              LAMBDA c : c # -1)

faceMapEntries(disc, firsts) ==
    [i \in 1..Len(firsts) |->
        [key |-> disc[firsts[i]].key,
         vertices |-> disc[firsts[i]].face,
         cells |-> cellsOfKey(disc, disc[firsts[i]].key)]] \o <<>>

faceMapFrom(disc) == faceMapEntries(disc, firstSeen(disc))

\* faceMap after step 4a, as the sequence of its entries in insertion order;
\* entry = [key, vertices (first-seen occurrence), cells (in discovery order)]
faceMapOf(cellMap, cvi) ==
    faceMapFrom(discoveries(SetToSortedSeq(DOMAIN cellMap), cvi))

Min(a, b) == IF a < b THEN a ELSE b
Max(a, b) == IF a < b THEN b ELSE a

\* step 4b for one entry with two cells
internalFaceOf(info) ==
    [vertices |-> info.vertices,
     owner |-> Min(info.cells[1], info.cells[2]),
     neighbour |-> Max(info.cells[1], info.cells[2])]

\* step 4b for one entry with one cell
boundaryFaceOf(info) == [vertices |-> info.vertices, owner |-> info.cells[1]]

\* mutant of sortInternalFaces: the internal faces stay in faceMap order
sortInternalFaces_skipped(internalFaces, ties) == internalFaces

\* step 4c: sort internal faces by (owner, neighbour)
sortInternalFaces(internalFaces, ties) ==
    stdSort(internalFaces, LAMBDA f : <<f.owner, f.neighbour>>, ties)

isInternal(info) == Len(info.cells) = 2
isBoundary(info) == Len(info.cells) = 1

internalFacesOf(faceMap) ==
    [i \in 1..Len(SelectSeq(faceMap, isInternal)) |->
        internalFaceOf(SelectSeq(faceMap, isInternal)[i])] \o <<>>

boundaryFacesOf(faceMap) ==
    [i \in 1..Len(SelectSeq(faceMap, isBoundary)) |->
        boundaryFaceOf(SelectSeq(faceMap, isBoundary)[i])] \o <<>>

\* "Assemble mesh data: internal faces first, then boundary"
assembleFaces(ok, internalFaces, boundaryFaces) ==
    [ok |-> ok,
     nInternalFaces |-> Len(internalFaces),
     faces |-> [i \in 1..Len(internalFaces) |-> internalFaces[i].vertices]
               \o [i \in 1..Len(boundaryFaces) |-> boundaryFaces[i].vertices],
     owner |-> [i \in 1..Len(internalFaces) |-> internalFaces[i].owner]
               \o [i \in 1..Len(boundaryFaces) |-> boundaryFaces[i].owner],
     neighbour |-> [i \in 1..Len(internalFaces) |-> internalFaces[i].neighbour]]

\* steps 4b-4c over the entries of faceMap in iteration order
facesFrom(faceMap, ties) ==
    assembleFaces(\A i \in 1..Len(faceMap) : isInternal(faceMap[i]) \/ isBoundary(faceMap[i]),
                  sortInternalFaces(internalFacesOf(faceMap), ties),
                  boundaryFacesOf(faceMap))

\* Steps 4a-4c.  ok = FALSE when the runtime_error of step 4b is thrown.
generateFaces(cellMap, cvi, hashOrder, ties) ==
    facesFrom(unorderedIteration(faceMapOf(cellMap, cvi), hashOrder), ties)

\* ---------------------------------------- classifyBoundaryPatches (step 5)
MinOf(S) == CHOOSE a \in S : \A b \in S : a <= b
MaxOf(S) == CHOOSE a \in S : \A b \in S : b <= a

\* Step 5a and the six slabs, in classification order:
\* left, right, front, back, bottom, top
boundaryBoxes(points, o) ==
    LET P == {points[i] : i \in 1..Len(points)}
        xMin == MinOf({q.x : q \in P})
        xMax == MaxOf({q.x : q \in P})
        yMin == MinOf({q.y : q \in P})
        yMax == MaxOf({q.y : q \in P})
        zMin == MinOf({q.z : q \in P})
        zMax == MaxOf({q.z : q \in P})
        halfVs == halfVoxel(o)
        m(a) == RoundFP(a - halfVs)
        p(a) == RoundFP(a + halfVs)
        makeBBox(bMinX, bMinY, bMinZ, bMaxX, bMaxY, bMaxZ) ==
            [minX |-> bMinX, minY |-> bMinY, minZ |-> bMinZ,
             maxX |-> bMaxX, maxY |-> bMaxY, maxZ |-> bMaxZ]
    IN  << makeBBox(m(xMin), m(yMin), m(zMin), p(xMin), p(yMax), p(zMax)),
           makeBBox(m(xMax), m(yMin), m(zMin), p(xMax), p(yMax), p(zMax)),
           makeBBox(m(xMin), m(yMin), m(zMin), p(xMax), p(yMin), p(zMax)),
           makeBBox(m(xMin), m(yMax), m(zMin), p(xMax), p(yMax), p(zMax)),
           makeBBox(m(xMin), m(yMin), m(zMin), p(xMax), p(yMax), p(zMin)),
           makeBBox(m(xMin), m(yMin), m(zMax), p(xMax), p(yMax), p(zMax)) >>

\* mutant of faceInBox: only the first vertex of the face is tested
faceInBox_firstVertex(mesh, faceIdx, box) ==
    LET pt == mesh.points[mesh.faces[faceIdx + 1][1] + 1]
    IN  ~(\/ pt.x < box.minX \/ pt.x > box.maxX
          \/ pt.y < box.minY \/ pt.y > box.maxY
          \/ pt.z < box.minZ \/ pt.z > box.maxZ)

\* Check if all 4 vertices of a face lie within a bounding box
faceInBox(mesh, faceIdx, box) ==
    \A k \in 1..4 :
        LET pt == mesh.points[mesh.faces[faceIdx + 1][k] + 1]
        IN  ~(\/ pt.x < box.minX \/ pt.x > box.maxX
              \/ pt.y < box.minY \/ pt.y > box.maxY
              \/ pt.z < box.minZ \/ pt.z > box.maxZ)

\* "for (int fi : toRemove) remaining.erase(fi);"
eraseClassified(remaining, toRemove) == remaining \ toRemove

\* classifyPatch for boxes k.., removing classified faces from `remaining`;
\* the last entry is the "walls" patch (what remains)
RECURSIVE classifyFrom(_, _, _, _)
classifyFrom(mesh, boxes, k, remaining) ==
    IF k > Len(boxes) THEN <<SetToSortedSeq(remaining)>>
    ELSE LET toRemove == {fi \in remaining : faceInBox(mesh, fi, boxes[k])}
         IN  <<SetToSortedSeq(toRemove)>>
             \o classifyFrom(mesh, boxes, k + 1, eraseClassified(remaining, toRemove))

\* mutant of patchNames: the flow-axis pair is named the other way round
patchNames_swapped(flowDirection) ==
    CASE flowDirection = "X" ->
            <<"outlet", "inlet", "front_y", "back_y", "bottom_z", "top_z", "walls">>
      [] flowDirection = "Y" ->
            <<"left_x", "right_x", "outlet", "inlet", "bottom_z", "top_z", "walls">>
      [] flowDirection = "Z" ->
            <<"left_x", "right_x", "front_y", "back_y", "outlet", "inlet", "walls">>

\* Step 5c: names of orderedPatches
patchNames(flowDirection) ==
    CASE flowDirection = "X" ->
            <<"inlet", "outlet", "front_y", "back_y", "bottom_z", "top_z", "walls">>
      [] flowDirection = "Y" ->
            <<"left_x", "right_x", "inlet", "outlet", "bottom_z", "top_z", "walls">>
      [] flowDirection = "Z" ->
            <<"left_x", "right_x", "front_y", "back_y", "inlet", "outlet", "walls">>

\* concatenation of the patches' face lists
RECURSIVE flatten(_)
flatten(ss) == IF ss = <<>> THEN <<>> ELSE Head(ss) \o flatten(Tail(ss))

\* step 5c, "Sort each patch's faces by owner"
sortPatches(mesh, classified, ties) ==
    [k \in 1..Len(classified) |->
        stdSort(classified[k], LAMBDA fi : <<mesh.owner[fi + 1]>>, ties)] \o <<>>

\* mutant of startFace: the patches are counted from face 0
startFace_fromZero(nInt, orderedPatches, k) ==
    Len(flatten(SubSeq(orderedPatches, 1, k - 1)))

\* startFace of patch k: the faces of the patches before it come first
startFace(nInt, orderedPatches, k) ==
    nInt + Len(flatten(SubSeq(orderedPatches, 1, k - 1)))

\* mesh_.boundaryPatches: empty patches get no entry
patchTable(nInt, names, orderedPatches) ==
    [name \in {names[k] : k \in {j \in 1..Len(orderedPatches) : orderedPatches[j] # <<>>}} |->
        <<startFace(nInt, orderedPatches, CHOOSE j \in 1..Len(names) : names[j] = name),
          Len(orderedPatches[CHOOSE j \in 1..Len(names) : names[j] = name])>>]

\* step 5d: the boundary faces in patch order (`moved` lists the old indices)
reorderFaces(mesh, moved, boundaryPatches) ==
    [mesh EXCEPT
        !.faces = SubSeq(mesh.faces, 1, mesh.nInternalFaces)
                  \o [i \in 1..Len(moved) |-> mesh.faces[moved[i] + 1]],
        !.owner = SubSeq(mesh.owner, 1, mesh.nInternalFaces)
                  \o [i \in 1..Len(moved) |-> mesh.owner[moved[i] + 1]],
        !.neighbour = SubSeq(mesh.neighbour, 1, mesh.nInternalFaces),
        !.boundaryPatches = boundaryPatches]

applyPatches(mesh, o, orderedPatches) ==
    reorderFaces(mesh, flatten(orderedPatches),
                 patchTable(mesh.nInternalFaces, patchNames(o.flowDirection), orderedPatches))

\* Steps 5b-5d on a mesh with at least one face
classifyBoundaryPatches(mesh, o, ties) ==
    applyPatches(mesh, o,
        sortPatches(mesh,
            classifyFrom(mesh, boundaryBoxes(mesh.points, o), 1,
                         mesh.nInternalFaces..(Len(mesh.faces) - 1)),
            ties))

\* ------------------------------------------------------------ build(): inputs
\* significands of voxelSize: 1.0 (a power of two) and the next MaxMantStep
\* representable significands above it
VoxelMants == Pow2(Prec - 1)..(Pow2(Prec - 1) + MaxMantStep)

Options ==
    [voxelMant : VoxelMants,
     flowDirection : FlowDirection,
     connectivityCheck : BOOLEAN,
     autoBoundaryFaceSets : BOOLEAN]

VoxelArrayOf(nx, ny, nz) ==
    {[nx |-> nx, ny |-> ny, nz |-> nz, data |-> d] : d \in [1..(nx * ny * nz) -> {0, 1}]}

\* every grid of at most MaxVoxels voxels (zero-dimension grids included)
SmallGrids ==
    UNION {VoxelArrayOf(d[1], d[2], d[3]) :
             d \in {e \in (0..MaxDim) \X (0..MaxDim) \X (0..MaxDim) :
                      e[1] * e[2] * e[3] <= MaxVoxels}}

\* the all-fluid N x N x N cubes
CubeGrid(N) == [nx |-> N, ny |-> N, nz |-> N, data |-> [i \in 1..(N * N * N) |-> 1]]

\* the 1-D pattern fluid, solid, fluid, fluid, fluid
PatternGrid == [nx |-> 5, ny |-> 1, nz |-> 1, data |-> <<1, 0, 1, 1, 1>>]

Grids == SmallGrids \cup {CubeGrid(N) : N \in 1..MaxN} \cup {PatternGrid}

NoMesh == [none |-> TRUE]

\* --------------------------------------------------------- build(): actions
MeshInit ==
    /\ geometry_ \in Grids
    /\ opts_ \in Options
    /\ mesh_ = emptyMesh
    /\ cellVertexIndices_ = <<>>
    /\ pc = "generateCellMap"
    /\ firstMesh = NoMesh

generateCellMap ==
    /\ pc = "generateCellMap"
    /\ mesh_' = [mesh_ EXCEPT !.cellMap = cellMapOf(geometry_)]
    /\ pc' = IF opts_.connectivityCheck THEN "filterByConnectivity" ELSE "generatePoints"
    /\ UNCHANGED <<geometry_, opts_, cellVertexIndices_, firstMesh>>
    /\ UNCHANGED convVars
    /\ UNCHANGED voxVars
    /\ UNCHANGED permVars

filterByConnectivity ==
    /\ pc = "filterByConnectivity"
    /\ mesh_' = [mesh_ EXCEPT
                    !.cellMap = filterCellMap(mesh_.cellMap,
                                              findLargestComponent(mesh_.cellMap))]
    /\ pc' = "generatePoints"
    /\ UNCHANGED <<geometry_, opts_, cellVertexIndices_, firstMesh>>
    /\ UNCHANGED convVars
    /\ UNCHANGED voxVars
    /\ UNCHANGED permVars

generatePointsStep ==
    /\ pc = "generatePoints"
    /\ LET r == generatePoints(mesh_.cellMap, opts_)
       IN  /\ mesh_' = [mesh_ EXCEPT !.points = r.points]
           /\ cellVertexIndices_' = r.cellVertexIndices
    /\ pc' = "generateFaces"
    /\ UNCHANGED <<geometry_, opts_, firstMesh>>
    /\ UNCHANGED convVars
    /\ UNCHANGED voxVars
    /\ UNCHANGED permVars

generateFacesStep ==
    /\ pc = "generateFaces"
    /\ \E hashOrder \in HashOrders, ties \in SortTies :
         LET r == generateFaces(mesh_.cellMap, cellVertexIndices_, hashOrder, ties)
         IN  IF r.ok
             THEN /\ mesh_' = [mesh_ EXCEPT !.nInternalFaces = r.nInternalFaces,
                                           !.faces = r.faces,
                                           !.owner = r.owner,
                                           !.neighbour = r.neighbour]
                  /\ pc' = IF opts_.autoBoundaryFaceSets
                           THEN "classifyBoundaryPatches" ELSE "finish"
             ELSE /\ mesh_' = mesh_
                  /\ pc' = "failed"
    /\ UNCHANGED <<geometry_, opts_, cellVertexIndices_, firstMesh>>
    /\ UNCHANGED convVars
    /\ UNCHANGED voxVars
    /\ UNCHANGED permVars

classifyBoundaryPatchesStep ==
    /\ pc = "classifyBoundaryPatches"
    /\ \E ties \in SortTies :
         mesh_' = IF mesh_.faces = <<>> THEN mesh_
                  ELSE classifyBoundaryPatches(mesh_, opts_, ties)
    /\ pc' = "finish"
    /\ UNCHANGED <<geometry_, opts_, cellVertexIndices_, firstMesh>>
    /\ UNCHANGED convVars
    /\ UNCHANGED voxVars
    /\ UNCHANGED permVars

\* the tail of build(): nCells is set and mesh_ is returned
finishBuild ==
    /\ pc = "finish"
    /\ mesh_' = [mesh_ EXCEPT !.nCells = Cardinality(DOMAIN mesh_.cellMap)]
    /\ pc' = "done"
    /\ UNCHANGED <<geometry_, opts_, cellVertexIndices_, firstMesh>>
    /\ UNCHANGED convVars
    /\ UNCHANGED voxVars
    /\ UNCHANGED permVars

\* ------------------------------------------------------ ConvergenceChecker
\* Doubles of the monitor are exact rationals <<numerator, denominator>> in
\* lowest terms with a positive denominator.
RECURSIVE GCD(_, _)
GCD(a, b) == IF b = 0 THEN a ELSE GCD(b, a % b)

Rat(n, d) ==
    LET g == GCD(Abs(n), Abs(d))
        sg == IF d < 0 THEN -1 ELSE 1
    IN  <<(sg * n) \div g, (sg * d) \div g>>

RInt(n) == <<n, 1>>
RAdd(a, b) == Rat(a[1] * b[2] + b[1] * a[2], a[2] * b[2])
RSub(a, b) == Rat(a[1] * b[2] - b[1] * a[2], a[2] * b[2])
RMul(a, b) == Rat(a[1] * b[1], a[2] * b[2])
RDiv(a, b) == Rat(a[1] * b[2], a[2] * b[1])
RLess(a, b) == a[1] * b[2] < b[1] * a[2]
RAbs(a) == <<Abs(a[1]), a[2]>>

RECURSIVE RSum(_)
RSum(s) == IF s = <<>> THEN RInt(0) ELSE RAdd(Head(s), RSum(Tail(s)))

\* *std::max_element over a non-empty vector of doubles
maxElement(s) == CHOOSE a \in {s[i] : i \in 1..Len(s)} :
                    \A i \in 1..Len(s) : ~RLess(a, s[i])

\* mutant of linearFit: the line is forced through the origin
linearFit_throughOrigin(x, y) ==
    LET sxy == RSum([i \in 1..Len(x) |-> RMul(x[i], y[i])])
        sxx == RSum([i \in 1..Len(x) |-> RMul(x[i], x[i])])
    IN  <<RInt(0), RDiv(sxy, sxx)>>

\* Least-squares line through (x[i], y[i]): the solution the Householder QR
\* solve returns for a full-rank system.  Returns <<intercept, slope>>.
linearFit(x, y) ==
    LET n == RInt(Len(x))
        sx == RSum(x)
        sy == RSum(y)
        sxy == RSum([i \in 1..Len(x) |-> RMul(x[i], y[i])])
        sxx == RSum([i \in 1..Len(x) |-> RMul(x[i], x[i])])
        slope == RDiv(RSub(RMul(n, sxy), RMul(sx, sy)),
                      RSub(RMul(n, sxx), RMul(sx, sx)))
        intercept == RDiv(RSub(sy, RMul(slope, sx)), n)
    IN  <<intercept, slope>>

\* the derived state as left by the first lines of updateState
derivedReset ==
    [slope |-> RInt(0), predicted |-> RInt(0), error |-> RInt(0), converged |-> FALSE]

\* mutant of startIdxOf: the window is taken from the start of the history
startIdxOf_first(totalValues, window) == 0

\* first sample of the regression window
startIdxOf(totalValues, window) == totalValues - window

\* mutant of tooFewValues: exactly `window` values are already enough
tooFewValues_strict(totalValues, window) == totalValues < window

\* the "too few values" early return of updateState
tooFewValues(totalValues, window) == totalValues <= window

\* updateState: the derived state recomputed from the history
updateState(iterations, permeabilities, o) ==
    LET totalValues == Len(iterations)
        startIdx == startIdxOf(totalValues, o.window)
        subIter == [i \in 1..o.window |-> iterations[startIdx + i]]
        subPerm == [i \in 1..o.window |-> permeabilities[startIdx + i]]
        maxIter == maxElement(subIter)
        maxPerm == maxElement(permeabilities)
        normIter == [i \in 1..o.window |-> RDiv(subIter[i], maxIter)]
        normPerm == [i \in 1..o.window |-> RDiv(subPerm[i], maxPerm)]
        fit == linearFit(normIter, normPerm)
        intercept == fit[1]
        slope == fit[2]
        nextIterNorm == RDiv(RAdd(maxIter, RInt(1)), maxIter)
        predNorm == RAdd(intercept, RMul(slope, nextIterNorm))
        predicted == RMul(predNorm, maxPerm)
        currentPerm == permeabilities[Len(permeabilities)]
        error == IF currentPerm # RInt(0)
                 THEN RSub(RInt(1), RDiv(predicted, currentPerm))
                 ELSE RInt(0)
    IN  IF tooFewValues(totalValues, o.window) THEN derivedReset
        ELSE IF maxIter = RInt(0) \/ maxPerm = RInt(0) THEN derivedReset
        ELSE [slope |-> slope, predicted |-> predicted, error |-> error,
              converged |-> /\ RLess(RAbs(slope), o.convSlope)
                            /\ RLess(RAbs(error), o.errorBound)]

\* the derived state a query sees: recomputed when dirty, cached otherwise
derivedNow ==
    IF dirty_ THEN updateState(iterations_, permeabilities_, copts_)
    ELSE [slope |-> slope_, predicted |-> predicted_, error |-> error_,
          converged |-> converged_]

\* permeability samples and thresholds offered to the monitor
SampleValues == {RInt(v) : v \in (-1)..MaxValue}

ConvOptions ==
    [window : 2..MaxWindow,
     convSlope : {Rat(1, 100)},
     errorBound : {Rat(1, 100)}]

NoReturn == [op |-> "none", value |-> FALSE]

ConvInit ==
    /\ copts_ \in ConvOptions
    /\ iterations_ = <<>>
    /\ permeabilities_ = <<>>
    /\ slope_ = RInt(0)
    /\ predicted_ = RInt(0)
    /\ error_ = RInt(0)
    /\ converged_ = FALSE
    /\ dirty_ = TRUE
    /\ returned = NoReturn

\* mutant of addValue: the sample is appended and dirty_ is left as it was
addValue_keepsCache(iteration, permeability) ==
    /\ IF iterations_ = <<>> THEN TRUE
       ELSE RLess(iterations_[Len(iterations_)], iteration)
    /\ iterations_' = Append(iterations_, iteration)
    /\ permeabilities_' = Append(permeabilities_, permeability)
    /\ returned' = NoReturn
    /\ UNCHANGED <<copts_, slope_, predicted_, error_, converged_, dirty_>>
    /\ UNCHANGED meshVars
    /\ UNCHANGED voxVars
    /\ UNCHANGED permVars

\* addValue(iteration, permeability); the caller passes ascending iterations
addValue(iteration, permeability) ==
    /\ IF iterations_ = <<>> THEN TRUE
       ELSE RLess(iterations_[Len(iterations_)], iteration)
    /\ iterations_' = Append(iterations_, iteration)
    /\ permeabilities_' = Append(permeabilities_, permeability)
    /\ dirty_' = TRUE
    /\ returned' = NoReturn
    /\ UNCHANGED <<copts_, slope_, predicted_, error_, converged_>>
    /\ UNCHANGED meshVars
    /\ UNCHANGED voxVars
    /\ UNCHANGED permVars

\* "if (dirty_) updateState();" followed by the return of one derived field
query(op, field(_)) ==
    /\ LET d == derivedNow
       IN  /\ slope_' = d.slope
           /\ predicted_' = d.predicted
           /\ error_' = d.error
           /\ converged_' = d.converged
           /\ returned' = [op |-> op, value |-> field(d)]
    /\ dirty_' = FALSE
    /\ UNCHANGED <<copts_, iterations_, permeabilities_>>
    /\ UNCHANGED meshVars
    /\ UNCHANGED voxVars
    /\ UNCHANGED permVars

isConverged == query("isConverged", LAMBDA d : d.converged)
currentSlope == query("currentSlope", LAMBDA d : d.slope)
predictedPermeability == query("predictedPermeability", LAMBDA d : d.predicted)
predictionError == query("predictionError", LAMBDA d : d.error)

\* the iteration number the solver reports next: 1, 2, 3, ...
nextIteration ==
    IF iterations_ = <<>> THEN RInt(1)
    ELSE RAdd(iterations_[Len(iterations_)], RInt(1))

ConvNext ==
    \/ \E v \in SampleValues :
          Len(iterations_) < MaxSamples /\ addValue(nextIteration, v)
    \/ isConverged
    \/ currentSlope
    \/ predictedPermeability
    \/ predictionError

\* the builder before build() is called, for runs of the monitor alone
MeshIdle ==
    /\ geometry_ = [nx |-> 0, ny |-> 0, nz |-> 0, data |-> <<>>]
    /\ opts_ = [voxelMant |-> Pow2(Prec - 1), flowDirection |-> "X",
                connectivityCheck |-> TRUE, autoBoundaryFaceSets |-> TRUE]
    /\ mesh_ = emptyMesh
    /\ cellVertexIndices_ = <<>>
    /\ pc = "idle"
    /\ firstMesh = NoMesh

\* the monitor before any sample, for runs of the builder alone
ConvIdle ==
    /\ copts_ = [window |-> 2, convSlope |-> Rat(1, 100), errorBound |-> Rat(1, 100)]
    /\ iterations_ = <<>>
    /\ permeabilities_ = <<>>
    /\ slope_ = RInt(0)
    /\ predicted_ = RInt(0)
    /\ error_ = RInt(0)
    /\ converged_ = FALSE
    /\ dirty_ = TRUE
    /\ returned = NoReturn

\* ------------------------------------------------------------- VoxelArray
\* what a call leaves in place of its return value when it throws
Thrown(what) == [thrown |-> what]

isThrown(r) == "thrown" \in DOMAIN r

\* mutant of VoxelArray: the length of the state array is not checked
VoxelArray_unchecked(data, nx, ny, nz) ==
    [nx |-> nx, ny |-> ny, nz |-> nz, data |-> data]

\* VoxelArray::VoxelArray(data, nx, ny, nz)
VoxelArray(data, nx, ny, nz) ==
    IF Len(data) # nx * ny * nz THEN Thrown("runtime_error")
    ELSE [nx |-> nx, ny |-> ny, nz |-> nz, data |-> data]

\* VoxelArray() : nx_(0), ny_(0), nz_(0) {}
defaultVoxelArray == [nx |-> 0, ny |-> 0, nz |-> 0, data |-> <<>>]

\* x + nx_ * (y + ny_ * z), the subscript at() applies to data_
flatIndex(g, x, y, z) == x + g.nx * (y + g.ny * z)

\* the subscript names an element of data_
inArray(g, idx) == 0 <= idx /\ idx < Len(g.data)

\* number of voxels fluidFraction counts: v != 0
fluidCount(g) == Cardinality({i \in 1..Len(g.data) : g.data[i] # 0})

\* VoxelArray::fluidFraction
fluidFraction(g) ==
    IF g.data = <<>> THEN RInt(0) ELSE Rat(fluidCount(g), Len(g.data))

\* mutant of invertedState: every state other than 0 becomes 0
invertedState_nonZero(v) == IF v = 0 THEN 1 ELSE 0

\* the loop body of invertConvention
invertedState(v) == IF v = 0 THEN 1 ELSE IF v = 1 THEN 0 ELSE v

\* VoxelArray::invertConvention
invertConvention(g) ==
    [g EXCEPT !.data = [i \in 1..Len(g.data) |-> invertedState(g.data[i])] \o <<>>]

\* std::round of the non-negative or negative quotient n / d (d > 0): to the
\* nearest integer, halves away from zero
round(n, d) ==
    IF n >= 0 THEN (2 * n + d) \div (2 * d) ELSE -((2 * (-n) + d) \div (2 * d))

\* the scale factors of resample as <<numerator, denominator>>
scaleXOf(g, targetRes) == <<targetRes, g.nx>>

scaleYOf(g, targetRes) == <<targetRes, g.ny>>

scaleZOf(g, targetRes) == <<targetRes, g.nx>>

\* std::max(1, static_cast<int>(std::round(n * scale)))
scaledSize(n, scale) == Max(1, round(n * scale[1], scale[2]))

\* std::min(std::max(floor((i + 0.5) / scale), 0), n - 1) for scale > 0
nearest(i, scale, n) ==
    Min(Max(((2 * i + 1) * scale[2]) \div (2 * scale[1]), 0), n - 1)

\* the state array resample fills, in the z, y, x order of its loops
resampledData(g, newNx, newNy, newNz, sx, sy, sz) ==
    [idx \in 1..(newNx * newNy * newNz) |->
        at(g, nearest((idx - 1) % newNx, sx, g.nx),
              nearest(((idx - 1) \div newNx) % newNy, sy, g.ny),
              nearest((idx - 1) \div (newNx * newNy), sz, g.nz))] \o <<>>

\* mutant of resampledNx: the first axis keeps its size
resampledNx_original(g, targetRes) == g.nx

\* int newNx = targetRes;
resampledNx(g, targetRes) == targetRes

resampledNy(g, targetRes) == scaledSize(g.ny, scaleYOf(g, targetRes))

resampledNz(g, targetRes) == scaledSize(g.nz, scaleZOf(g, targetRes))

\* VoxelArray::resample.  A negative targetRes makes the size of newData
\* wrap to more than max_size(), and the std::vector constructor throws.  With
\* targetRes = 0 the scale factors are 0, newData is empty, and the conversions
\* of (i + 0.5) / 0 to int are undefined; whatever they yield is clamped and
\* used in no subscript, since the innermost loop runs newNx = 0 times.
resample(g, targetRes) ==
    IF g.nx = 0 \/ g.ny = 0 \/ g.nz = 0 THEN Thrown("runtime_error")
    ELSE IF targetRes < 0 THEN Thrown("length_error")
    ELSE IF targetRes = 0
         THEN VoxelArray(<<>>, 0, resampledNy(g, 0), resampledNz(g, 0))
    ELSE VoxelArray(resampledData(g, resampledNx(g, targetRes),
                                  resampledNy(g, targetRes),
                                  resampledNz(g, targetRes),
                                  scaleXOf(g, targetRes),
                                  scaleYOf(g, targetRes),
                                  scaleZOf(g, targetRes)),
                    resampledNx(g, targetRes),
                    resampledNy(g, targetRes),
                    resampledNz(g, targetRes))

\* -------------------------------------------------------- FiberFreeRegion
\* enum class CellRegion : int8_t
Fibrous == 0
BufferInlet == 1
BufferOutlet == 2

\* the coordinate of a voxel along the flow axis
flowCoordOf(direction, ix, iy, iz) ==
    CASE direction = "X" -> ix
      [] direction = "Y" -> iy
      [] direction = "Z" -> iz

\* size of the original grid along the flow axis
flowSizeOf(g, direction) ==
    CASE direction = "X" -> g.nx
      [] direction = "Y" -> g.ny
      [] direction = "Z" -> g.nz

\* newNx, newNy, newNz of pad
paddedNx(g, direction, layers) == IF direction = "X" THEN g.nx + layers ELSE g.nx

paddedNy(g, direction, layers) == IF direction = "Y" THEN g.ny + layers ELSE g.ny

paddedNz(g, direction, layers) == IF direction = "Z" THEN g.nz + layers ELSE g.nz

\* origX, origY, origZ: the coordinate shifted back along the flow axis
origCoord(direction, axis, c, inletLayers) ==
    IF direction = axis THEN c - inletLayers ELSE c

\* mutant of paddedState: the fibrous span is filled with fluid as well
paddedState_allFluid(g, direction, inletLayers, ix, iy, iz) == 1

\* newData[idx] as the loop body of pad leaves it
paddedState(g, direction, inletLayers, ix, iy, iz) ==
    IF flowCoordOf(direction, ix, iy, iz) < inletLayers THEN 1
    ELSE IF flowCoordOf(direction, ix, iy, iz) >= inletLayers + flowSizeOf(g, direction)
         THEN 1
    ELSE at(g, origCoord(direction, "X", ix, inletLayers),
               origCoord(direction, "Y", iy, inletLayers),
               origCoord(direction, "Z", iz, inletLayers))

\* mutant of regionOf: the outlet layers start one voxel late
regionOf_lateOutlet(flowCoord, inletLayers, flowSize) ==
    IF flowCoord < inletLayers THEN BufferInlet
    ELSE IF flowCoord > inletLayers + flowSize THEN BufferOutlet
    ELSE Fibrous

\* regionMask[idx] as the loop body of pad leaves it
regionOf(flowCoord, inletLayers, flowSize) ==
    IF flowCoord < inletLayers THEN BufferInlet
    ELSE IF flowCoord >= inletLayers + flowSize THEN BufferOutlet
    ELSE Fibrous

paddedData(g, direction, inletLayers, newNx, newNy, newNz) ==
    [idx \in 1..(newNx * newNy * newNz) |->
        paddedState(g, direction, inletLayers,
                    (idx - 1) % newNx,
                    ((idx - 1) \div newNx) % newNy,
                    (idx - 1) \div (newNx * newNy))] \o <<>>

paddedMask(g, direction, inletLayers, newNx, newNy, newNz) ==
    [idx \in 1..(newNx * newNy * newNz) |->
        regionOf(flowCoordOf(direction, (idx - 1) % newNx,
                             ((idx - 1) \div newNx) % newNy,
                             (idx - 1) \div (newNx * newNy)),
                 inletLayers, flowSizeOf(g, direction))] \o <<>>

PaddedGeometry(geometry, regionMask) ==
    IF isThrown(geometry) THEN geometry
    ELSE [geometry |-> geometry, regionMask |-> regionMask]

padInto(g, direction, inletLayers, newNx, newNy, newNz) ==
    IF newNx * newNy * newNz < 0 THEN Thrown("length_error")
    ELSE PaddedGeometry(
             VoxelArray(paddedData(g, direction, inletLayers, newNx, newNy, newNz),
                        newNx, newNy, newNz),
             paddedMask(g, direction, inletLayers, newNx, newNy, newNz))

\* FiberFreeRegion::pad.  There is no check of the grid or of the layer
\* counts; a negative totalNew makes the std::vector constructor throw.
pad(g, direction, inletLayers, outletLayers) ==
    padInto(g, direction, inletLayers,
            paddedNx(g, direction, inletLayers + outletLayers),
            paddedNy(g, direction, inletLayers + outletLayers),
            paddedNz(g, direction, inletLayers + outletLayers))

\* ---------------------------------------------------------- RegionTracker
\* RegionTracker() = default
defaultTracker == [regionMask_ |-> <<>>, nx_ |-> 0, ny_ |-> 0, nz_ |-> 0,
                   cellRegions_ |-> <<>>]

\* mutant of cellRegionOf: every cell defaults to Fibrous
cellRegionOf_default(cell, regionMask, nx, ny) == Fibrous

\* the loop body of buildFromCellMap: the label of one cell
cellRegionOf(cell, regionMask, nx, ny) ==
    IF /\ cell.coord[1] + nx * (cell.coord[2] + ny * cell.coord[3]) >= 0
       /\ cell.coord[1] + nx * (cell.coord[2] + ny * cell.coord[3]) < Len(regionMask)
    THEN regionMask[cell.coord[1] + nx * (cell.coord[2] + ny * cell.coord[3]) + 1]
    ELSE Fibrous

\* RegionTracker::buildFromCellMap
buildFromCellMap(cellMap, regionMask, nx, ny, nz) ==
    [regionMask_ |-> regionMask, nx_ |-> nx, ny_ |-> ny, nz_ |-> nz,
     cellRegions_ |-> [c \in DOMAIN cellMap |->
                          cellRegionOf(cellMap[c], regionMask, nx, ny)] @@ <<>>]

\* RegionTracker::regionForCell: throws for a cell the tracker does not know
regionForCell(t, cellIdx) ==
    IF cellIdx \in DOMAIN t.cellRegions_ THEN t.cellRegions_[cellIdx]
    ELSE Thrown("out_of_range")

\* countFibrousCells, countBufferInletCells, countBufferOutletCells
countCells(t, region) ==
    Cardinality({c \in DOMAIN t.cellRegions_ : t.cellRegions_[c] = region})

\* mesh.cellMap as build() returns it: written by generateCellMap and
\* filterByConnectivity, only read by the later steps
builtCellMap(g, connectivityCheck) ==
    IF connectivityCheck
    THEN filterCellMap(cellMapOf(g), findLargestComponent(cellMapOf(g)))
    ELSE cellMapOf(g)

\* ------------------------------------------- VoxelArray: inputs and actions
\* int8_t states found in a state array: 0 solid, 1 fluid, 2 anything else a
\* geometry file or a caller put there
VoxelStates == {0, 1, 2}

Dimensions == 0..MaxDim

\* state arrays handed to the constructor
StateArrays == UNION {[1..n -> VoxelStates] : n \in 0..MaxVoxels}

\* resample targets; a negative one is a caller's arithmetic gone wrong
TargetRes == (-1)..MaxRes

NoResult == [op |-> "none"]

NoPadded == [none |-> TRUE]

\* the process is still running (no access has crashed it) and the grid has
\* not been handed to pad yet: padding is the last use explored of a grid
alive == "crashed" \notin DOMAIN result /\ padded = NoPadded

VoxInit ==
    /\ voxelArray = defaultVoxelArray
    /\ result = NoResult
    /\ padded = NoPadded
    /\ tracker = defaultTracker

\* VoxelArray arr(data, nx, ny, nz); on a throw no object is made
construct ==
    /\ voxelArray = defaultVoxelArray
    /\ result = NoResult
    /\ \E nx \in Dimensions, ny \in Dimensions, nz \in Dimensions, data \in StateArrays :
         IF isThrown(VoxelArray(data, nx, ny, nz))
         THEN /\ result' = [op |-> "VoxelArray", thrown |-> "runtime_error",
                            nx |-> nx, ny |-> ny, nz |-> nz, length |-> Len(data)]
              /\ voxelArray' = voxelArray
         ELSE /\ result' = [op |-> "VoxelArray",
                            nx |-> nx, ny |-> ny, nz |-> nz, length |-> Len(data)]
              /\ voxelArray' = VoxelArray(data, nx, ny, nz)
    /\ UNCHANGED <<padded, tracker>>
    /\ UNCHANGED meshVars
    /\ UNCHANGED convVars
    /\ UNCHANGED permVars

\* the coordinates offered to at(): every one in range, and one step beyond
\* the range on either side of each axis
Coordinates(g) == ((-1)..g.nx) \X ((-1)..g.ny) \X ((-1)..g.nz)

inRange(g, c) ==
    /\ 0 <= c[1] /\ c[1] < g.nx
    /\ 0 <= c[2] /\ c[2] < g.ny
    /\ 0 <= c[3] /\ c[3] < g.nz

\* what an access through at() did: whether the coordinate was in range,
\* whether the subscript it applied names an element of data_, and the value
\* read or written
accessOf(op, g, c, value) ==
    [op |-> op, inRange |-> inRange(g, c),
     inArray |-> inArray(g, flatIndex(g, c[1], c[2], c[3])),
     value |-> value]

\* v = arr.at(x, y, z).  A subscript outside data_ is undefined behaviour:
\* the read yields whatever byte lies there, or the process crashes.
atRead ==
    /\ alive
    /\ \E c \in Coordinates(voxelArray) :
         IF inArray(voxelArray, flatIndex(voxelArray, c[1], c[2], c[3]))
         THEN result' = accessOf("at", voxelArray, c,
                                 voxelArray.data[flatIndex(voxelArray, c[1], c[2], c[3]) + 1])
         ELSE \E v \in VoxelStates, crashed \in BOOLEAN :
                result' = IF crashed
                          THEN [op |-> "at", crashed |-> TRUE]
                          ELSE accessOf("at", voxelArray, c, v)
    /\ UNCHANGED <<voxelArray, padded, tracker>>
    /\ UNCHANGED meshVars
    /\ UNCHANGED convVars
    /\ UNCHANGED permVars

\* arr.at(x, y, z) = v.  A subscript outside data_ is undefined behaviour:
\* the byte lands outside the state array, or the process crashes.
atWrite ==
    /\ alive
    /\ \E c \in Coordinates(voxelArray), v \in VoxelStates :
         IF inArray(voxelArray, flatIndex(voxelArray, c[1], c[2], c[3]))
         THEN /\ voxelArray' =
                   [voxelArray EXCEPT
                      !.data[flatIndex(voxelArray, c[1], c[2], c[3]) + 1] = v]
              /\ result' = accessOf("at=", voxelArray, c, v)
         ELSE /\ voxelArray' = voxelArray
              /\ \E crashed \in BOOLEAN :
                   result' = IF crashed
                             THEN [op |-> "at=", crashed |-> TRUE]
                             ELSE accessOf("at=", voxelArray, c, v)
    /\ UNCHANGED <<padded, tracker>>
    /\ UNCHANGED meshVars
    /\ UNCHANGED convVars
    /\ UNCHANGED permVars

\* arr.invertConvention(); the grid before the call is kept in the result,
\* and the grid before the call preceding it when that was an inversion too
invertConventionCall ==
    /\ alive
    /\ voxelArray' = invertConvention(voxelArray)
    /\ result' = [op |-> "invertConvention", before |-> voxelArray,
                  second |-> result.op = "invertConvention",
                  previous |-> IF result.op = "invertConvention"
                               THEN result.before ELSE voxelArray]
    /\ UNCHANGED <<padded, tracker>>
    /\ UNCHANGED meshVars
    /\ UNCHANGED convVars
    /\ UNCHANGED permVars

\* arr.fluidFraction()
fluidFractionCall ==
    /\ alive
    /\ result' = [op |-> "fluidFraction", value |-> fluidFraction(voxelArray)]
    /\ UNCHANGED <<voxelArray, padded, tracker>>
    /\ UNCHANGED meshVars
    /\ UNCHANGED convVars
    /\ UNCHANGED permVars

\* arr.resample(targetRes).  With targetRes = 0 the divisions by a zero
\* scale and the conversions of their quotients to int are undefined: the
\* call returns the grid its clamps leave, or the process crashes.
resampleCall ==
    /\ alive
    /\ \E targetRes \in TargetRes, crashed \in BOOLEAN :
         /\ crashed => (targetRes = 0 /\ ~isThrown(resample(voxelArray, targetRes)))
         /\ result' = IF crashed
                      THEN [op |-> "resample", crashed |-> TRUE]
                      ELSE [op |-> "resample", targetRes |-> targetRes,
                            value |-> resample(voxelArray, targetRes)]
    /\ UNCHANGED <<voxelArray, padded, tracker>>
    /\ UNCHANGED meshVars
    /\ UNCHANGED convVars
    /\ UNCHANGED permVars

\* ---------------------------------- padding and region tracking: actions
\* flow-axis layer counts handed to pad; a negative one is a caller's
\* arithmetic gone wrong
PadLayers == (-1)..MaxLayers

\* the all-fluid cube and the layer count of the buffer pipeline scenario
ScenarioSize == 3
ScenarioLayers == 2

\* grids handed to pad: every grid of at most MaxVoxels voxels of states 0
\* and 1 (zero-dimension grids included) and the scenario's cube
PadGrids == SmallGrids \cup {CubeGrid(ScenarioSize)}

PadInit ==
    /\ voxelArray \in PadGrids
    /\ result = NoResult
    /\ padded = NoPadded
    /\ tracker = defaultTracker

\* PaddedGeometry padded = FiberFreeRegion::pad(geom, direction, inlet, outlet)
padCall ==
    /\ padded = NoPadded
    /\ result.op \in {"none", "VoxelArray"}
    /\ ~isThrown(result)
    /\ \E direction \in FlowDirection, inletLayers \in PadLayers, outletLayers \in PadLayers :
         /\ size(voxelArray) > MaxVoxels =>
                (inletLayers = ScenarioLayers /\ outletLayers = ScenarioLayers)
         /\ result' = [op |-> "pad", direction |-> direction,
                       inletLayers |-> inletLayers, outletLayers |-> outletLayers]
         /\ padded' = pad(voxelArray, direction, inletLayers, outletLayers)
    /\ UNCHANGED <<voxelArray, tracker>>
    /\ UNCHANGED meshVars
    /\ UNCHANGED convVars
    /\ UNCHANGED permVars

\* HexMeshBuilder builder(padded.geometry, opts); MeshData mesh = builder.build();
\* with opts.regionMask = padded.regionMask.data()
buildPadded ==
    /\ result.op = "pad"
    /\ ~isThrown(padded)
    /\ \E connectivityCheck \in BOOLEAN :
         result' = [op |-> "build", direction |-> result.direction,
                    inletLayers |-> result.inletLayers,
                    outletLayers |-> result.outletLayers,
                    connectivityCheck |-> connectivityCheck,
                    cellMap |-> builtCellMap(padded.geometry, connectivityCheck),
                    nCells |-> Cardinality(DOMAIN builtCellMap(padded.geometry,
                                                               connectivityCheck))]
    /\ UNCHANGED <<voxelArray, padded, tracker>>
    /\ UNCHANGED meshVars
    /\ UNCHANGED convVars
    /\ UNCHANGED permVars

\* tracker.buildFromCellMap(mesh.cellMap, padded.regionMask, nx, ny, nz)
trackRegions ==
    /\ result.op = "build"
    /\ tracker' = buildFromCellMap(result.cellMap, padded.regionMask,
                                   padded.geometry.nx, padded.geometry.ny,
                                   padded.geometry.nz)
    /\ result' = [result EXCEPT !.op = "buildFromCellMap"]
    /\ UNCHANGED <<voxelArray, padded>>
    /\ UNCHANGED meshVars
    /\ UNCHANGED convVars
    /\ UNCHANGED permVars

VoxNext ==
    \/ construct
    \/ atRead
    \/ atWrite
    \/ invertConventionCall
    \/ fluidFractionCall
    \/ resampleCall
    \/ padCall

PadNext ==
    \/ padCall
    \/ buildPadded
    \/ trackRegions

\* no VoxelArray, PaddedGeometry or RegionTracker in use, for runs of the
\* builder or of the monitor alone
VoxIdle ==
    /\ voxelArray = defaultVoxelArray
    /\ result = NoResult
    /\ padded = NoPadded
    /\ tracker = defaultTracker

\* ------------------------------------------------- PermeabilityCalculator
\* The doubles of the permeability calculator.  <<n, d, k>> stands for the
\* value (n/d) * 1e-31^k with n/d a reduced fraction of moderate size, so that
\* values on both sides of the calculator's 1e-30 threshold are exact.  Sums
\* of terms with different k keep the term with the smaller k, which is what
\* binary64 addition returns for mantissas this far apart.  A division by
\* zero gives a value with d = 0 (inf or NaN).
Dbl(n, d, k) == IF n = 0 /\ d # 0 THEN <<0, 1, 0>>
                ELSE <<Rat(n, d)[1], Rat(n, d)[2], k>>
DInt(n) == Dbl(n, 1, 0)
DNeg(a) == <<-a[1], a[2], a[3]>>
DAbs(a) == <<Abs(a[1]), a[2], a[3]>>
DAdd(a, b) ==
    IF a[1] = 0 THEN b
    ELSE IF b[1] = 0 THEN a
    ELSE IF a[3] < b[3] THEN a
    ELSE IF b[3] < a[3] THEN b
    ELSE Dbl(a[1] * b[2] + b[1] * a[2], a[2] * b[2], a[3])
DSub(a, b) == DAdd(a, DNeg(b))
DMul(a, b) == Dbl(a[1] * b[1], a[2] * b[2], a[3] + b[3])
DDiv(a, b) == IF b[1] = 0 THEN <<1, 0, 0>>
              ELSE Dbl(a[1] * b[2], a[2] * b[1], a[3] - b[3])
DLess(a, b) == DSub(a, b)[1] < 0
isFinite(a) == a[2] # 0

\* the literal 1e-30 of compute's guards
Threshold == Dbl(10, 1, 1)

\* static_cast<int>(d), as a position in a TLA+ tuple (1-based)
axisIndex(d) ==
    CASE d = "X" -> 1
      [] d = "Y" -> 2
      [] d = "Z" -> 3

secondaryDirection(d) ==
    CASE d = "X" -> "Y"
      [] d = "Y" -> "Z"
      [] d = "Z" -> "X"

tertiaryDirection(d) == secondaryDirection(secondaryDirection(d))

\* PermeabilityCalculator::computeROIBounds; opts_.fibrousRegionOnly is not
\* read, here or anywhere else in the class
computeROIBounds(o) ==
    [minMain |-> DAdd(o.meshMinMain, DMul(o.inletLength, o.scale)),
     maxMain |-> DSub(o.meshMaxMain, DMul(o.outletLength, o.scale)),
     minSec  |-> o.meshMinSec,
     maxSec  |-> o.meshMaxSec,
     minTert |-> o.meshMinTert,
     maxTert |-> o.meshMaxTert]

\* lo <= v && v <= hi
between(v, lo, hi) == ~DLess(v, lo) /\ ~DLess(hi, v)

isCellInROI(center, direction, roi) ==
    /\ between(center[axisIndex(direction)], roi.minMain, roi.maxMain)
    /\ between(center[axisIndex(secondaryDirection(direction))],
               roi.minSec, roi.maxSec)
    /\ between(center[axisIndex(tertiaryDirection(direction))],
               roi.minTert, roi.maxTert)

\* the cells the accumulation loop does not skip, in loop order
selectedCells(cellCenters, direction, roi) ==
    SelectSeq([i \in 1..Len(cellCenters) |-> i] \o <<>>,
              LAMBDA i : isCellInROI(cellCenters[i], direction, roi))

RECURSIVE sumU(_, _, _, _)
\* sumU_main, sumU_sec, sumU_tert after the first n selected cells
sumU(velocities, sel, idx, n) ==
    IF n = 0 THEN DInt(0)
    ELSE DAdd(sumU(velocities, sel, idx, n - 1), velocities[sel[n]][idx])

\* avgU_main, avgU_sec, avgU_tert
avgU(velocities, sel, idx) ==
    DDiv(sumU(velocities, sel, idx, Len(sel)), DInt(Len(sel)))

flowLengthROI(roi) == DSub(roi.maxMain, roi.minMain)
flowCrossArea(roi) ==
    DMul(DSub(roi.maxSec, roi.minSec), DSub(roi.maxTert, roi.minTert))
flowLengthFull(o) == DSub(o.meshMaxMain, o.meshMinMain)
dP(o) == DSub(o.fluid.pressureOutlet, o.fluid.pressureInlet)
domainVol(o, roi) == DMul(flowLengthFull(o), flowCrossArea(roi))

\* std::abs(dP) > 1e-30
\* mutant of hasPressureDrop: any non-zero difference passes
hasPressureDrop_nonZero(o) == dP(o)[1] # 0

hasPressureDrop(o) == DLess(Threshold, DAbs(dP(o)))

\* flowCrossArea > 1e-30
hasCrossArea(roi) == DLess(Threshold, flowCrossArea(roi))

\* -(avgU * nu * density * flowLengthROI) / dP
\* mutant of darcy: the sign is not flipped
darcy_unsigned(velocity, o, roi) ==
    DDiv(DMul(DMul(DMul(velocity, o.fluid.kinematicViscosity),
                   o.fluid.density), flowLengthROI(roi)),
         dP(o))

darcy(velocity, o, roi) ==
    DDiv(DNeg(DMul(DMul(DMul(velocity, o.fluid.kinematicViscosity),
                        o.fluid.density), flowLengthROI(roi))),
         dP(o))

\* result.permVolAvgMain / Secondary / Tertiary for the axis at position idx
permVolAvg(o, velocities, sel, idx, roi) ==
    IF hasPressureDrop(o) THEN darcy(avgU(velocities, sel, idx), o, roi)
    ELSE DInt(0)

\* result.permFlowRate
permFlowRate(o, roi, outletFlux) ==
    IF hasPressureDrop(o) /\ hasCrossArea(roi)
    THEN darcy(DDiv(outletFlux, flowCrossArea(roi)), o, roi)
    ELSE DInt(0)

\* result.fiberVolumeContent
fiberVolumeContent(o, roi, meshVolume) ==
    IF DLess(Threshold, domainVol(o, roi))
    THEN DMul(DSub(DInt(1), DDiv(meshVolume, domainVol(o, roi))), DInt(100))
    ELSE DInt(0)

\* PermeabilityResult result{}; result.direction = direction;
zeroResult(direction) ==
    [direction            |-> direction,
     permVolAvgMain       |-> DInt(0),
     permVolAvgSecondary  |-> DInt(0),
     permVolAvgTertiary   |-> DInt(0),
     permFlowRate         |-> DInt(0),
     fiberVolumeContent   |-> DInt(0),
     flowLength           |-> DInt(0),
     crossSectionArea     |-> DInt(0),
     iterationsToConverge |-> 0]

\* compute from "if (selectedCount == 0)" on; sel are the selected cells
computeSelected(o, velocities, sel, meshVolume, direction, outletFlux, roi) ==
    IF sel = <<>> THEN zeroResult(direction)
    ELSE [direction            |-> direction,
          permVolAvgMain       |->
              permVolAvg(o, velocities, sel, axisIndex(direction), roi),
          permVolAvgSecondary  |->
              permVolAvg(o, velocities, sel,
                         axisIndex(secondaryDirection(direction)), roi),
          permVolAvgTertiary   |->
              permVolAvg(o, velocities, sel,
                         axisIndex(tertiaryDirection(direction)), roi),
          permFlowRate         |-> permFlowRate(o, roi, outletFlux),
          fiberVolumeContent   |-> fiberVolumeContent(o, roi, meshVolume),
          flowLength           |-> flowLengthROI(roi),
          crossSectionArea     |-> flowCrossArea(roi),
          iterationsToConverge |-> 0]

\* PermeabilityCalculator::compute with opts_ = o
compute(o, velocities, cellCenters, meshVolume, direction, outletFlux) ==
    IF Len(velocities) # Len(cellCenters) THEN Thrown("invalid_argument")
    ELSE computeSelected(o, velocities,
                         selectedCells(cellCenters, direction,
                                       computeROIBounds(o)),
                         meshVolume, direction, outletFlux,
                         computeROIBounds(o))

\* the values compute divides by on the path it takes
divisorsOf(o, sel, roi) ==
    IF sel = <<>> THEN {}
    ELSE {DInt(Len(sel))}
         \cup (IF hasPressureDrop(o) THEN {dP(o)} ELSE {})
         \cup (IF hasPressureDrop(o) /\ hasCrossArea(roi)
               THEN {flowCrossArea(roi)} ELSE {})
         \cup (IF DLess(Threshold, domainVol(o, roi))
               THEN {domainVol(o, roi)} ELSE {})

\* --- inputs of the calculator
\* FluidProperties: the unit fluid of the unit tests, a denser and more
\* viscous one, and fluids with an equal, a negligible, a threshold-sized
\* and a reversed pressure pair
Fluids ==
    {[kinematicViscosity |-> DInt(f[1]), density |-> DInt(f[2]),
      pressureInlet |-> f[3], pressureOutlet |-> f[4]] :
        f \in {<<1, 1, DInt(1), DInt(0)>>,
               <<2, 3, DInt(1), DInt(0)>>,
               <<1, 1, DInt(1), DInt(1)>>,
               <<1, 1, DInt(0), Dbl(1, 1, 1)>>,
               <<1, 1, DInt(0), Threshold>>,
               <<2, 1, DInt(0), DInt(1)>>}}

\* mesh bounds and buffer lengths: the unit cube, a domain of length 2 with
\* buffers of 1/2 at both ends, a domain whose buffers meet, and domains of
\* zero and of negligible cross-section
Boxes ==
    {[meshMaxMain |-> DInt(b[1]), meshMaxSec |-> b[2],
      inletLength |-> Dbl(b[3], 2, 0), outletLength |-> Dbl(b[3], 2, 0),
      scale |-> DInt(b[4])] :
        b \in {<<1, DInt(1), 0, 1>>,
               <<2, DInt(1), 1, 1>>,
               <<2, DInt(1), 1, 2>>,
               <<1, DInt(0), 0, 1>>,
               <<1, Dbl(1, 1, 1), 0, 1>>}}

\* PermeabilityCalculator::Options; the box starts at the origin and has
\* tertiary extent 1
PermOptions ==
    {[fluid |-> f, fibrousRegionOnly |-> only,
      meshMinMain |-> DInt(0), meshMaxMain |-> b.meshMaxMain,
      meshMinSec |-> DInt(0), meshMaxSec |-> b.meshMaxSec,
      meshMinTert |-> DInt(0), meshMaxTert |-> DInt(1),
      inletLength |-> b.inletLength, outletLength |-> b.outletLength,
      scale |-> b.scale] :
        f \in Fluids, only \in BOOLEAN, b \in Boxes}

\* cell centres: the middle of the unit cube, a point on its y = 0 side, and
\* a point 3/2 along x
CellCenters ==
    {<<Dbl(1, 2, 0), Dbl(1, 2, 0), Dbl(1, 2, 0)>>,
     <<Dbl(1, 4, 0), DInt(0), Dbl(1, 4, 0)>>,
     <<Dbl(3, 2, 0), Dbl(1, 2, 0), Dbl(1, 2, 0)>>}

CellVelocities ==
    {<<DInt(1), DInt(1), DInt(1)>>,
     <<DInt(2), DInt(1), DInt(-1)>>}

\* per-cell vectors of up to MaxCells entries
VectorsOf(S) == UNION {[1..n -> S] : n \in 0..MaxCells}

NoPermResult == [op |-> "none"]

PermInit ==
    /\ popts_ \in PermOptions
    /\ permResult = NoPermResult

\* what a call leaves behind: its arguments, the cells it selected, the
\* values it divided by and the PermeabilityResult it returned
callOf(op, velocities, cellCenters, meshVolume, direction, outletFlux) ==
    [op |-> op,
     velocities |-> velocities,
     cellCenters |-> cellCenters,
     meshVolume |-> meshVolume,
     direction |-> direction,
     outletFlux |-> outletFlux,
     selected |-> IF Len(velocities) # Len(cellCenters) THEN <<>>
                  ELSE selectedCells(cellCenters, direction,
                                     computeROIBounds(popts_)),
     divisors |-> IF Len(velocities) # Len(cellCenters) THEN {}
                  ELSE divisorsOf(popts_,
                                  selectedCells(cellCenters, direction,
                                                computeROIBounds(popts_)),
                                  computeROIBounds(popts_)),
     value |-> compute(popts_, velocities, cellCenters, meshVolume,
                       direction, outletFlux)]

\* calc.compute(velocities, cellCenters, 0.5, direction, 1.0) with one
\* velocity per cell centre; compute reads opts_ and its arguments
\* only, so one call per calculator is followed
computeCall ==
    /\ permResult = NoPermResult
    /\ \E n \in 0..MaxCells :
      \E velocities \in [1..n -> CellVelocities],
         cellCenters \in [1..n -> CellCenters],
         direction \in FlowDirection :
        /\ permResult' = callOf("compute", velocities \o <<>>,
                                cellCenters \o <<>>, Dbl(1, 2, 0),
                                direction, DInt(1))
        /\ UNCHANGED popts_
        /\ UNCHANGED meshVars
        /\ UNCHANGED convVars
        /\ UNCHANGED voxVars

\* calc.computeFromFields(...), which forwards to compute; here also with
\* vectors of different lengths
computeFromFieldsCall ==
    /\ permResult = NoPermResult
    /\ \E velocities \in VectorsOf({<<DInt(1), DInt(1), DInt(1)>>}),
       cellCenters \in VectorsOf(CellCenters),
       direction \in FlowDirection :
        /\ permResult' = callOf("computeFromFields", velocities \o <<>>,
                                cellCenters \o <<>>, DInt(1),
                                direction, DInt(1))
        /\ UNCHANGED popts_
        /\ UNCHANGED meshVars
        /\ UNCHANGED convVars
        /\ UNCHANGED voxVars

PermNext ==
    \/ computeCall
    \/ computeFromFieldsCall

\* no PermeabilityCalculator in use
PermIdle ==
    /\ popts_ = [fluid |-> "none"]
    /\ permResult = NoPermResult

Init == MeshInit /\ ConvIdle /\ VoxIdle /\ PermIdle

Next ==
    \/ generateCellMap
    \/ filterByConnectivity
    \/ generatePointsStep
    \/ generateFacesStep
    \/ classifyBoundaryPatchesStep
    \/ finishBuild

Spec == Init /\ [][Next]_vars

\* a second HexMeshBuilder is constructed from the same grid and options and
\* its build() runs; the mesh returned by the first one is kept for comparison
rebuild ==
    /\ pc = "done"
    /\ firstMesh = NoMesh
    /\ firstMesh' = mesh_
    /\ mesh_' = emptyMesh
    /\ cellVertexIndices_' = <<>>
    /\ pc' = "generateCellMap"
    /\ UNCHANGED <<geometry_, opts_>>
    /\ UNCHANGED convVars
    /\ UNCHANGED voxVars
    /\ UNCHANGED permVars

NextTwice ==
    \/ generateCellMap
    \/ filterByConnectivity
    \/ generatePointsStep
    \/ generateFacesStep
    \/ classifyBoundaryPatchesStep
    \/ finishBuild
    \/ rebuild

\* two builds of the same input, one after the other
InitTwice ==
    /\ Init
    /\ size(geometry_) <= MaxTwiceVoxels

SpecTwice == InitTwice /\ [][NextTwice]_vars

\* the convergence monitor on its own
InitConv == MeshIdle /\ ConvInit /\ VoxIdle /\ PermIdle

SpecConv == InitConv /\ [][ConvNext]_vars

\* a solver run whose permeability never changes: every sample carries the
\* value of the first one; iteration numbers start at 0 or 1 and ascend by 1
ConstValues == {RInt(-1), RInt(0), RInt(1), RInt(42), Rat(1, 3)}

ConstOptions ==
    [window : 2..MaxConstWindow,
     convSlope : {Rat(1, 100)},
     errorBound : {Rat(1, 100)}]

ConstInit ==
    /\ copts_ \in ConstOptions
    /\ iterations_ = <<>>
    /\ permeabilities_ = <<>>
    /\ slope_ = RInt(0)
    /\ predicted_ = RInt(0)
    /\ error_ = RInt(0)
    /\ converged_ = FALSE
    /\ dirty_ = TRUE
    /\ returned = NoReturn

addFirstValue ==
    \E first \in {RInt(0), RInt(1)}, v \in ConstValues :
        /\ iterations_ = <<>>
        /\ addValue(first, v)

addSameValue ==
    /\ iterations_ # <<>>
    /\ Len(iterations_) < MaxConstSamples
    /\ addValue(nextIteration, permeabilities_[1])

ConstNext ==
    \/ addFirstValue
    \/ addSameValue
    \/ isConverged
    \/ currentSlope
    \/ predictedPermeability
    \/ predictionError

InitConst == MeshIdle /\ ConstInit /\ VoxIdle /\ PermIdle

SpecConst == InitConst /\ [][ConstNext]_vars

\* a VoxelArray on its own: constructed once, then read, written, inverted,
\* measured and resampled in any order
InitVoxel == MeshIdle /\ ConvIdle /\ VoxInit /\ PermIdle

SpecVoxel == InitVoxel /\ [][VoxNext]_vars

\* the buffer pipeline: a grid is padded, meshed and its cells are tracked
InitPad == MeshIdle /\ ConvIdle /\ PadInit /\ PermIdle

SpecPad == InitPad /\ [][PadNext]_vars

\* one PermeabilityCalculator and the calls made on it
InitPerm == MeshIdle /\ ConvIdle /\ VoxIdle /\ PermInit

SpecPerm == InitPerm /\ [][PermNext]_vars

\* --- filterCellMap on cell maps that carry field values
\* CellData with all its fields: coord, u, v, w, p, region
CellDatas ==
    {[coord |-> <<0, 0, 0>>, u |-> 0, v |-> 0, w |-> 0, p |-> 0,
      region |-> Fibrous],
     [coord |-> <<1, 0, 0>>, u |-> 1, v |-> 0, w |-> 0, p |-> 2,
      region |-> BufferInlet],
     [coord |-> <<1, 2, 0>>, u |-> 0, v |-> 0, w |-> 3, p |-> 1,
      region |-> BufferOutlet]}

\* std::map<int, CellData> with any keys in 0..MaxCellIndex
CellMaps ==
    UNION {[keys -> CellDatas] : keys \in SUBSET (0..MaxCellIndex)}

\* filterCellMap(cellMap, keepSet)
filterCellMapCall ==
    /\ result = NoResult
    /\ \E cellMap \in CellMaps, keepSet \in SUBSET (0..MaxCellIndex) :
          result' = [op |-> "filterCellMap",
                     cellMap |-> cellMap @@ <<>>,
                     keepSet |-> keepSet,
                     value |-> filterCellMap(cellMap, keepSet) @@ <<>>]
    /\ UNCHANGED <<voxelArray, padded, tracker>>
    /\ UNCHANGED meshVars
    /\ UNCHANGED convVars
    /\ UNCHANGED permVars

\* findLargestComponent(cellMap) followed by filterCellMap, as
\* filterByConnectivity does it, on cells at distinct voxels
filterLargestCall ==
    /\ result = NoResult
    /\ \E cellMap \in CellMaps :
        /\ \A a \in DOMAIN cellMap : \A b \in DOMAIN cellMap :
               a # b => cellMap[a].coord # cellMap[b].coord
        /\ result' = [op |-> "filterLargest",
                     cellMap |-> cellMap @@ <<>>,
                     keepSet |-> findLargestComponent(cellMap),
                     value |-> filterCellMap(cellMap,
                                   findLargestComponent(cellMap)) @@ <<>>]
    /\ UNCHANGED <<voxelArray, padded, tracker>>
    /\ UNCHANGED meshVars
    /\ UNCHANGED convVars
    /\ UNCHANGED permVars

FilterNext ==
    \/ filterCellMapCall
    \/ filterLargestCall

InitFilter == MeshIdle /\ ConvIdle /\ VoxIdle /\ PermIdle

SpecFilter == InitFilter /\ [][FilterNext]_vars

\* --- a RegionTracker handed a cell map and a mask directly
\* region masks of nx * ny * nz labels
RegionMasks(nx, ny, nz) == [1..(nx * ny * nz) -> {Fibrous, BufferInlet, BufferOutlet}]

\* coordinates a caller may put into a CellData: inside the mask grid, one
\* below it and up to MaxMaskDim, one past its largest extent
CellCoords == ((-1)..MaxMaskDim) \X ((-1)..MaxMaskDim) \X ((-1)..MaxMaskDim)

\* tracker.buildFromCellMap(cellMap, regionMask, nx, ny, nz) on a new
\* tracker, with a cell map of one cell and a mask of up to MaxVoxels
\* labels; the call replaces regionMask_, nx_, ny_, nz_ and cellRegions_
\* whatever they were
buildFromCellMapCall ==
    /\ result = NoResult
    /\ \E nx \in 1..MaxMaskDim, ny \in 1..MaxMaskDim, nz \in 1..MaxMaskDim :
        /\ nx * ny * nz <= MaxVoxels
        /\ \E regionMask \in RegionMasks(nx, ny, nz), c0 \in CellCoords :
            /\ tracker' = buildFromCellMap(
                              [c \in {0} |-> [coord |-> c0]] @@ <<>>,
                              regionMask \o <<>>, nx, ny, nz)
            /\ result' = [op |-> "buildFromCellMap",
                          cellMap |-> [c \in {0} |-> [coord |-> c0]] @@ <<>>]
            /\ UNCHANGED <<voxelArray, padded>>
            /\ UNCHANGED meshVars
            /\ UNCHANGED convVars
            /\ UNCHANGED permVars

\* CellRegion regionForCell(cellIdx) on the tracker just built
regionForCellCall ==
    \E cellIdx \in 0..1 :
        /\ result.op = "buildFromCellMap"
        /\ result' = [op |-> "regionForCell", cellMap |-> result.cellMap,
                      cellIdx |-> cellIdx,
                      value |-> regionForCell(tracker, cellIdx)]
        /\ UNCHANGED <<voxelArray, padded, tracker>>
        /\ UNCHANGED meshVars
        /\ UNCHANGED convVars
        /\ UNCHANGED permVars

TrackerNext ==
    \/ buildFromCellMapCall
    \/ regionForCellCall

InitTracker == MeshIdle /\ ConvIdle /\ VoxIdle /\ PermIdle

SpecTracker == InitTracker /\ [][TrackerNext]_vars

\* ================================================================ properties
\* ---------------------------------------------------- notions used by them
built == pc = "done"

nFaces(m) == Len(m.faces)
nBoundaryFaces(m) == Len(m.faces) - m.nInternalFaces

\* one coordinate of a point
coordinate(pt, axis) ==
    CASE axis = "x" -> pt.x
      [] axis = "y" -> pt.y
      [] axis = "z" -> pt.z

\* the cells one of whose six sides is the quadrilateral `face`: its four
\* distinct vertices are corners of the cell and lie in one axis plane
cellsOfFace(m, cvi, face) ==
    LET fs == {face[k] : k \in 1..4}
    IN  {c \in DOMAIN m.cellMap :
            /\ Cardinality(fs) = 4
            /\ fs \subseteq {cvi[c][v] : v \in 1..8}
            /\ \E axis \in {"x", "y", "z"} :
                 Cardinality({coordinate(m.points[q + 1], axis) : q \in fs}) = 1}

\* the face indices (0-based) covered by the patch `name`
patchRange(m, name) ==
    LET r == m.boundaryPatches[name]
    IN  r[1]..(r[1] + r[2] - 1)

RECURSIVE patchCountSum(_, _)
patchCountSum(m, names) ==
    IF names = {} THEN 0
    ELSE LET n == CHOOSE a \in names : TRUE
         IN  m.boundaryPatches[n][2] + patchCountSum(m, names \ {n})

\* the patch ranges are pairwise disjoint, leave no gap, and partition the
\* boundary index range [nInternalFaces, total faces)
patchesPartition(m) ==
    LET names == DOMAIN m.boundaryPatches
    IN  /\ patchCountSum(m, names) = nBoundaryFaces(m)
        /\ \A a \in names : \A b \in names :
             a # b => patchRange(m, a) \cap patchRange(m, b) = {}
        /\ UNION {patchRange(m, n) : n \in names}
             = m.nInternalFaces..(nFaces(m) - 1)

\* coordinates of the fluid voxels of a grid
fluidVoxels(g) ==
    {c \in (0..(g.nx - 1)) \X (0..(g.ny - 1)) \X (0..(g.nz - 1)) :
        at(g, c[1], c[2], c[3]) # 0}

\* two voxels share a side
sixAdjacent(a, b) ==
    Abs(a[1] - b[1]) + Abs(a[2] - b[2]) + Abs(a[3] - b[3]) = 1

\* the 6-connected component of the set `seed` inside the voxel set F
RECURSIVE componentOf(_, _)
componentOf(seed, F) ==
    LET grown == seed \cup {f \in F : \E s \in seed : sixAdjacent(s, f)}
    IN  IF grown = seed THEN seed ELSE componentOf(grown, F)

survivors(m) == {m.cellMap[c].coord : c \in DOMAIN m.cellMap}

\* the connectivity filter has run in this build
filtered ==
    /\ opts_.connectivityCheck
    /\ pc \in {"generatePoints", "generateFaces", "classifyBoundaryPatches",
               "finish", "done"}

fullyDisconnected(g) ==
    \A a \in fluidVoxels(g) : \A b \in fluidVoxels(g) : ~sixAdjacent(a, b)

\* the first fluid voxel met by the z, y, x traversal of generateCellMap
firstFluidVoxel(g) ==
    CHOOSE a \in fluidVoxels(g) :
        \A b \in fluidVoxels(g) :
            a = b \/ TupleLess(<<a[3], a[2], a[1]>>, <<b[3], b[2], b[1]>>)

isCube(g, N) == g = CubeGrid(N)

\* ------------------------------------------------------------------- C1
\* C1: in every mesh returned by build, each face of the internal prefix is a
\* side of exactly two cells and each face of the boundary suffix is a side
\* of exactly one cell (so never of zero or of more than two).
C1_FaceMultiplicity ==
    built =>
        \A i \in 1..nFaces(mesh_) :
            Cardinality(cellsOfFace(mesh_, cellVertexIndices_, mesh_.faces[i]))
                = IF i <= mesh_.nInternalFaces THEN 2 ELSE 1

C1_Witness ==
    /\ built
    /\ mesh_.nInternalFaces >= 2
    /\ nBoundaryFaces(mesh_) >= 10

\* ------------------------------------------------------------------- C2
\* C2 as stated: for every built mesh, whatever the option flags, the patch
\* table's ranges partition the boundary range [nInternalFaces, total faces)
\* and their counts sum to the number of boundary faces.
C2_AsStated == built => patchesPartition(mesh_)

\* C2: the boundary faces are the faces after the internal prefix.  When
\* patch classification is enabled the patch ranges are pairwise disjoint,
\* contiguous, sum to the boundary-face count and partition
\* [nInternalFaces, total faces); when it is disabled the patch table is
\* empty whatever the number of boundary faces.
C2_PatchPartition ==
    built =>
        /\ nBoundaryFaces(mesh_) >= 0
        /\ Len(mesh_.owner) - Len(mesh_.neighbour) = nBoundaryFaces(mesh_)
        /\ opts_.autoBoundaryFaceSets => patchesPartition(mesh_)
        /\ ~opts_.autoBoundaryFaceSets => DOMAIN mesh_.boundaryPatches = {}

C2_Witness ==
    /\ built
    /\ opts_.autoBoundaryFaceSets
    /\ Cardinality(DOMAIN mesh_.boundaryPatches) >= 7
    /\ mesh_.nInternalFaces >= 1

\* ------------------------------------------------------------------- C3
\* C3: in every built mesh each internal face has owner < neighbour and the
\* (owner, neighbour) pairs of the internal prefix are in ascending
\* lexicographic order, also after patch classification reordered the faces.
C3_InternalOrder ==
    built =>
        /\ \A i \in 1..mesh_.nInternalFaces : mesh_.owner[i] < mesh_.neighbour[i]
        /\ \A i \in 1..(mesh_.nInternalFaces - 1) :
             ~TupleLess(<<mesh_.owner[i + 1], mesh_.neighbour[i + 1]>>,
                        <<mesh_.owner[i], mesh_.neighbour[i]>>)

C3_Witness ==
    /\ built
    /\ opts_.autoBoundaryFaceSets
    /\ mesh_.nInternalFaces >= 3
    /\ DOMAIN mesh_.boundaryPatches # {}

\* ------------------------------------------------------------------- C4
\* C4: in every built mesh, with the connectivity filter on or off, every
\* owner and neighbour entry and every cell-map key lies in [0, nCells),
\* nCells is the number of cell-map entries, owner has one entry per face and
\* neighbour one entry per internal face.
C4_IndexRanges ==
    built =>
        /\ mesh_.nCells = Cardinality(DOMAIN mesh_.cellMap)
        /\ \A c \in DOMAIN mesh_.cellMap : 0 <= c /\ c < mesh_.nCells
        /\ Len(mesh_.owner) = nFaces(mesh_)
        /\ Len(mesh_.neighbour) = mesh_.nInternalFaces
        /\ \A i \in 1..Len(mesh_.owner) :
             0 <= mesh_.owner[i] /\ mesh_.owner[i] < mesh_.nCells
        /\ \A i \in 1..Len(mesh_.neighbour) :
             0 <= mesh_.neighbour[i] /\ mesh_.neighbour[i] < mesh_.nCells

\* the filter dropped the first cell and kept a component with internal faces
C4_Witness ==
    /\ built
    /\ opts_.connectivityCheck
    /\ mesh_.nCells >= 2
    /\ mesh_.nCells < Cardinality(fluidVoxels(geometry_))
    /\ firstFluidVoxel(geometry_) \notin survivors(mesh_)
    /\ mesh_.nInternalFaces >= 1

C6_LargestComponent ==
    filtered =>
        LET F == fluidVoxels(geometry_)
            S == survivors(mesh_)
        IN  /\ S \subseteq F
            /\ Cardinality(S) = Cardinality(DOMAIN mesh_.cellMap)
            /\ (S = {}) = (F = {})
            /\ \A v \in S : componentOf({v}, F) = S
            /\ \A u \in F : Cardinality(componentOf({u}, F)) <= Cardinality(S)
            /\ geometry_ = PatternGrid =>
                 S = {<<2, 0, 0>>, <<3, 0, 0>>, <<4, 0, 0>>}

C6_Witness ==
    /\ built
    /\ opts_.connectivityCheck
    /\ geometry_ = PatternGrid
    /\ mesh_.nCells = 3

\* a surviving component that extends along z
C6_WitnessAcrossZ ==
    /\ filtered
    /\ \E a \in survivors(mesh_) : \E b \in survivors(mesh_) : a[3] # b[3]

\* ------------------------------------------------------------------- C7
\* C7 as stated: build does not fail, and for a grid without fluid voxels as
\* well as for a grid whose fluid voxels are pairwise non-adjacent (filter
\* on) the returned mesh has zero cells and zero faces.
C7_AsStated ==
    /\ pc # "failed"
    /\ built =>
         ((\/ fluidVoxels(geometry_) = {}
           \/ (opts_.connectivityCheck /\ fullyDisconnected(geometry_)))
            => (mesh_.nCells = 0 /\ nFaces(mesh_) = 0))

\* C7: build does not fail on an empty or fully-disconnected input.  A grid
\* without fluid voxels (a zero-dimension grid included) gives the empty
\* mesh: no cells, points, faces or patches.  A grid with at least one fluid
\* voxel whose fluid voxels are pairwise non-adjacent, built with the filter
\* on, gives a one-cell mesh: the first fluid voxel of the traversal, with 8
\* points, no internal face and 6 boundary faces.
C7_EmptyOrSingleCell ==
    /\ pc # "failed"
    /\ built =>
         /\ fluidVoxels(geometry_) = {} =>
              /\ mesh_.nCells = 0
              /\ DOMAIN mesh_.cellMap = {}
              /\ mesh_.points = <<>>
              /\ mesh_.faces = <<>>
              /\ mesh_.owner = <<>>
              /\ mesh_.neighbour = <<>>
              /\ mesh_.nInternalFaces = 0
              /\ DOMAIN mesh_.boundaryPatches = {}
         /\ (/\ fluidVoxels(geometry_) # {}
             /\ opts_.connectivityCheck
             /\ fullyDisconnected(geometry_)) =>
              /\ mesh_.nCells = 1
              /\ survivors(mesh_) = {firstFluidVoxel(geometry_)}
              /\ Len(mesh_.points) = 8
              /\ mesh_.nInternalFaces = 0
              /\ nFaces(mesh_) = 6

\* several isolated fluid voxels, filter on
C7_Witness ==
    /\ built
    /\ opts_.connectivityCheck
    /\ fullyDisconnected(geometry_)
    /\ Cardinality(fluidVoxels(geometry_)) >= 2

\* a grid with voxels but no fluid, and a zero-dimension grid
C7_WitnessNoFluid ==
    /\ built
    /\ size(geometry_) >= 2
    /\ fluidVoxels(geometry_) = {}

C7_WitnessZeroDim ==
    /\ built
    /\ size(geometry_) = 0

\* ------------------------------------------------------------------- C8
\* C8: an all-fluid N x N x N grid built with the connectivity check off has
\* N^3 cells, (N+1)^3 points, 3*N^2*(N-1) internal faces and 6*N^2 boundary
\* faces.
C8_CubeCounts ==
    \A N \in 1..MaxN :
        (built /\ isCube(geometry_, N) /\ ~opts_.connectivityCheck) =>
            /\ mesh_.nCells = N * N * N
            /\ Len(mesh_.points) = (N + 1) * (N + 1) * (N + 1)
            /\ mesh_.nInternalFaces = 3 * N * N * (N - 1)
            /\ nBoundaryFaces(mesh_) = 6 * N * N

\* ------------------------------------------------------------------- C9
\* the histories of the same length that end in the same `window` samples as
\* the monitor's own: any earlier samples followed by that window
sameWindowHistories ==
    {earlier \o SubSeq(permeabilities_,
                       Len(permeabilities_) - copts_.window + 1, Len(permeabilities_)) :
        earlier \in [1..(Len(permeabilities_) - copts_.window) -> SampleValues]}

\* The C9 formulas are stated in the states that follow an addValue (dirty_),
\* where a query recomputes the derived values from the history; every
\* non-empty history occurs in such a state.
\* C9 as stated: once more than `window` samples exist, the derived values
\* are the same for every history with the same last `window` samples,
\* whatever the earlier samples were.
C9_AsStated ==
    (dirty_ /\ Len(permeabilities_) > copts_.window) =>
        LET own == derivedNow
        IN  \A alt \in sameWindowHistories :
                updateState(iterations_, alt, copts_) = own

\* C9: the derived values are functions of the last `window` samples and of
\* the maximum permeability of the whole history: two histories longer than
\* `window` with the same last `window` samples and the same overall maximum
\* give the same slope, prediction, error and converged flag.
C9_WindowAndMaximum ==
    (dirty_ /\ Len(permeabilities_) > copts_.window) =>
        LET own == derivedNow
            maxPerm == maxElement(permeabilities_)
        IN  \A alt \in sameWindowHistories :
                maxElement(alt) = maxPerm =>
                    updateState(iterations_, alt, copts_) = own

\* a history whose derived slope is not zero and for which another history
\* with the same window, the same maximum and other early samples exists
C9_Witness ==
    /\ dirty_
    /\ Len(permeabilities_) >= copts_.window + 2
    /\ derivedNow.slope # RInt(0)
    /\ \E alt \in sameWindowHistories :
         /\ alt # permeabilities_
         /\ maxElement(alt) = maxElement(permeabilities_)

\* ------------------------------------------------------------------ C10
\* C10: while at most `window` samples were added the monitor does not report
\* convergence: isConverged() returns false and the flag stays false.
C10_NotConvergedWhileCollecting ==
    Len(iterations_) <= copts_.window =>
        /\ ~derivedNow.converged
        /\ returned.op = "isConverged" => returned.value = FALSE

\* isConverged() was called with exactly `window` constant non-zero samples
C10_Witness ==
    /\ Len(iterations_) = copts_.window
    /\ returned.op = "isConverged"
    /\ \A i \in 1..Len(permeabilities_) : permeabilities_[i] = RInt(1)

\* ------------------------------------------------------------------- C11
\* every sample of the history carries the same permeability
constantHistory ==
    /\ permeabilities_ # <<>>
    /\ \A i \in 1..Len(permeabilities_) : permeabilities_[i] = permeabilities_[1]

\* what the four queries report once the derived state is up to date
reportsConverged ==
    /\ converged_
    /\ slope_ = RInt(0)
    /\ error_ = RInt(0)
    /\ returned.op = "isConverged" => returned.value = TRUE
    /\ returned.op = "currentSlope" => returned.value = RInt(0)
    /\ returned.op = "predictionError" => returned.value = RInt(0)

C11_WitnessZero ==
    /\ ~dirty_
    /\ copts_.window = MaxConstWindow
    /\ Len(permeabilities_) = MaxConstSamples
    /\ constantHistory
    /\ permeabilities_[1] = RInt(0)
    /\ returned.op = "isConverged"
    /\ returned.value = FALSE

\* ------------------------------------------- notions used by C12 .. C15
\* pad was called; its arguments stay in result while the mesh is built and
\* its cells are tracked
padReturned == result.op \in {"pad", "build", "buildFromCellMap"}

\* pad was called with layer counts that are not negative
padded0 == padReturned /\ result.inletLayers >= 0 /\ result.outletLayers >= 0

\* coordinates of the voxels of a grid
voxelsOf(g) == (0..(g.nx - 1)) \X (0..(g.ny - 1)) \X (0..(g.nz - 1))

\* position of a voxel in a flat array of a grid: index = x + nx (y + ny z)
positionOf(g, c) == c[1] + g.nx * (c[2] + g.ny * c[3]) + 1

\* coordinate of a voxel along an axis
along(direction, c) ==
    IF direction = "X" THEN c[1] ELSE IF direction = "Y" THEN c[2] ELSE c[3]

\* sizes of a grid along the two axes other than the given one
acrossSizes(direction, g) ==
    IF direction = "X" THEN <<g.ny, g.nz>>
    ELSE IF direction = "Y" THEN <<g.nx, g.nz>> ELSE <<g.nx, g.ny>>

sizeAlong(direction, g) ==
    IF direction = "X" THEN g.nx ELSE IF direction = "Y" THEN g.ny ELSE g.nz

\* the coordinate moved by k voxels along an axis
shifted(direction, c, k) ==
    IF direction = "X" THEN <<c[1] + k, c[2], c[3]>>
    ELSE IF direction = "Y" THEN <<c[1], c[2] + k, c[3]>>
    ELSE <<c[1], c[2], c[3] + k>>

\* the label C12 gives to flow-axis coordinate c
labelOf(c, inlet, originalSize) ==
    IF c < inlet THEN "BufferInlet"
    ELSE IF c >= inlet + originalSize THEN "BufferOutlet" ELSE "Fibrous"

labelName(region) ==
    IF region = BufferInlet THEN "BufferInlet"
    ELSE IF region = BufferOutlet THEN "BufferOutlet"
    ELSE IF region = Fibrous THEN "Fibrous" ELSE "other"

\* ------------------------------------------------------------------- C12
\* C12: pad(grid, axis, inlet, outlet) with inlet, outlet >= 0 returns a
\* geometry whose size along the flow axis is the original size + inlet +
\* outlet and whose other two sizes are unchanged, and a region array of the
\* same length as the state array in which the voxel with flow-axis
\* coordinate c is BufferInlet if c < inlet, BufferOutlet if c >= inlet +
\* original size, and Fibrous otherwise.
C12_PadShapeAndLabels ==
    padded0 =>
        /\ ~isThrown(padded)
        /\ sizeAlong(result.direction, padded.geometry)
              = sizeAlong(result.direction, voxelArray)
                + result.inletLayers + result.outletLayers
        /\ acrossSizes(result.direction, padded.geometry)
              = acrossSizes(result.direction, voxelArray)
        /\ Len(padded.regionMask) = Len(padded.geometry.data)
        /\ \A c \in voxelsOf(padded.geometry) :
              labelName(padded.regionMask[positionOf(padded.geometry, c)])
                = labelOf(along(result.direction, c), result.inletLayers,
                          sizeAlong(result.direction, voxelArray))

\* a 2 x 2 x 1 grid padded along Y with 1 inlet and 2 outlet layers
C12_Witness ==
    /\ result.op = "pad"
    /\ result.direction = "Y"
    /\ result.inletLayers = 1
    /\ result.outletLayers = 2
    /\ voxelArray.nx = 2 /\ voxelArray.ny = 2 /\ voxelArray.nz = 1
    /\ padded.geometry.ny = 5
    /\ padded.regionMask = <<1, 1, 0, 0, 0, 0, 2, 2, 2, 2>>

\* ------------------------------------------------------------------- C13
\* C13: after a pad with inlet, outlet >= 0 every voxel of a prepended or
\* appended layer is fluid (state 1), every voxel of the Fibrous span has the
\* state of the original voxel at the position shifted back by inlet along
\* the flow axis, every original voxel is found in the span with its state,
\* and with 0 inlet and 0 outlet layers the padded state array equals the
\* original one.
C13_PaddedStates ==
    padded0 =>
        /\ ~isThrown(padded)
        /\ \A c \in voxelsOf(padded.geometry) :
              padded.geometry.data[positionOf(padded.geometry, c)] =
                IF labelOf(along(result.direction, c), result.inletLayers,
                           sizeAlong(result.direction, voxelArray)) = "Fibrous"
                THEN voxelArray.data[positionOf(voxelArray,
                         shifted(result.direction, c, -result.inletLayers))]
                ELSE 1
        /\ \A c \in voxelsOf(voxelArray) :
              padded.geometry.data[positionOf(padded.geometry,
                  shifted(result.direction, c, result.inletLayers))]
                = voxelArray.data[positionOf(voxelArray, c)]
        /\ (result.inletLayers = 0 /\ result.outletLayers = 0)
              => padded.geometry.data = voxelArray.data

\* a grid with a solid and a fluid voxel padded with one layer on each side
C13_Witness ==
    /\ result.op = "pad"
    /\ result.direction = "X"
    /\ result.inletLayers = 1
    /\ result.outletLayers = 1
    /\ voxelArray.nx = 2 /\ voxelArray.ny = 1 /\ voxelArray.nz = 1
    /\ voxelArray.data = <<0, 1>>
    /\ padded.geometry.data = <<1, 0, 1, 1>>

\* nothing was added: the padded state array is the original one
C13_WitnessNoLayers ==
    /\ result.op = "pad"
    /\ result.inletLayers = 0
    /\ result.outletLayers = 0
    /\ voxelArray.data = <<1, 0, 0, 1>>
    /\ padded.geometry.data = voxelArray.data

\* ------------------------------------------------------------------- C14
\* the tracker was built from the cell map of the mesh of the padded grid
tracked == result.op = "buildFromCellMap"

\* the 3 x 3 x 3 all-fluid grid padded with 2 + 2 layers and meshed with
\* connectivity filtering on
scenarioD ==
    /\ voxelArray = CubeGrid(ScenarioSize)
    /\ result.inletLayers = ScenarioLayers
    /\ result.outletLayers = ScenarioLayers
    /\ result.connectivityCheck

\* C14: when the cells of the mesh built from a padded grid are tracked, the
\* counts of Fibrous, BufferInlet and BufferOutlet cells sum to the cell
\* count of the mesh; for the 3 x 3 x 3 all-fluid grid padded along any axis
\* with 2 + 2 layers and built with connectivity filtering on, the mesh has
\* 63 cells: 18 BufferInlet, 18 BufferOutlet and 27 Fibrous.
C14_RegionCounts ==
    tracked =>
        /\ countCells(tracker, Fibrous) + countCells(tracker, BufferInlet)
              + countCells(tracker, BufferOutlet) = result.nCells
        /\ scenarioD =>
              /\ result.nCells = 63
              /\ countCells(tracker, BufferInlet) = 18
              /\ countCells(tracker, BufferOutlet) = 18
              /\ countCells(tracker, Fibrous) = 27

\* the scenario along Z
C14_Witness ==
    /\ tracked
    /\ scenarioD
    /\ result.direction = "Z"
    /\ padded.geometry.nz = 7
    /\ result.nCells = 63

\* a tracked mesh that lost cells to the connectivity filter
C14_WitnessFiltered ==
    /\ tracked
    /\ result.connectivityCheck
    /\ result.nCells > 0
    /\ result.nCells < fluidCount(padded.geometry)

\* ------------------------------------------------------------------- C15
\* a grid with a zero dimension
isEmptyGrid(g) == g.nx = 0 \/ g.ny = 0 \/ g.nz = 0

\* C15: padding an empty (zero-dimension) grid fails with an error and
\* returns no PaddedGeometry, for every flow axis and every layer count.
C15_EmptyPadFails ==
    (padReturned /\ isEmptyGrid(voxelArray)) => isThrown(padded)

\* ------------------------------------------- notions used by C16 .. C20
\* the state array of a grid has one element per voxel
wellFormed(g) == Len(g.data) = g.nx * g.ny * g.nz

\* a call returned a grid
returnedGrid(op) ==
    /\ result.op = op
    /\ "value" \in DOMAIN result
    /\ ~isThrown(result.value)

C16_WitnessWritten ==
    /\ result.op = "at="
    /\ "value" \in DOMAIN result
    /\ result.inRange
    /\ Len(voxelArray.data) = 4

C16_WitnessResampled ==
    /\ returnedGrid("resample")
    /\ Len(result.value.data) > Len(voxelArray.data)

C16_WitnessPadded ==
    /\ result.op = "pad"
    /\ ~isThrown(padded)
    /\ 2 \in {voxelArray.data[i] : i \in 1..Len(voxelArray.data)}
    /\ Len(padded.geometry.data) > Len(voxelArray.data)

\* ------------------------------------------------------------------- C17
\* C17: an access through at() with a coordinate outside
\* [0,nx) x [0,ny) x [0,nz) reads or writes no element at all: neither an
\* element of the state array (which would belong to another coordinate) nor
\* memory outside it; the call is refused.
C17_BoundedAccess ==
    (/\ result.op \in {"at", "at="}
     /\ "inRange" \in DOMAIN result
     /\ ~result.inRange)
    => "refused" \in DOMAIN result

\* an access with a coordinate outside the range that lands on the element of
\* another coordinate
C17_WitnessAliased ==
    /\ result.op = "at="
    /\ "inRange" \in DOMAIN result
    /\ ~result.inRange
    /\ result.inArray

\* ------------------------------------------------------------------- C18
\* C18: resample(R) on a non-empty nx x ny x nz grid returns a grid whose
\* second and third sizes are round(ny R / nx) and round(nz R / nx), each at
\* least 1.
C18_ProportionalSizes ==
    (returnedGrid("resample") /\ result.targetRes >= 1) =>
        /\ result.value.ny
              = Max(1, round(voxelArray.ny * result.targetRes, voxelArray.nx))
        /\ result.value.nz
              = Max(1, round(voxelArray.nz * result.targetRes, voxelArray.nx))

\* what the code does: the second size is the target itself
C18_SecondAxisIsTarget ==
    (returnedGrid("resample") /\ result.targetRes >= 1) =>
        /\ result.value.ny = result.targetRes
        /\ result.value.nz
              = Max(1, round(voxelArray.nz * result.targetRes, voxelArray.nx))

\* ------------------------------------------------------------------- C19
\* C19: the grid a resample(R) call on a non-empty grid returns has first
\* size R and a state array of length nx * ny * nz (its own sizes).
C19_FirstAxisIsTarget ==
    returnedGrid("resample") =>
        /\ ~isEmptyGrid(voxelArray)
        /\ result.value.nx = result.targetRes
        /\ Len(result.value.data)
              = result.value.nx * result.value.ny * result.value.nz

\* a 1 x 2 x 1 grid resampled to 3
C19_Witness ==
    /\ returnedGrid("resample")
    /\ result.targetRes = 3
    /\ <<voxelArray.nx, voxelArray.ny, voxelArray.nz>> = <<1, 2, 1>>
    /\ result.value.nx = 3
    /\ Len(result.value.data) = 27

\* ------------------------------------------------------------------- C20
\* fluid as fluidFraction counts it and generateCellMap meshes it
isFluid(v) == v # 0

\* C20: invertConvention makes every fluid voxel solid and every solid voxel
\* fluid, so the fluid count after the call is the voxel count minus the
\* fluid count before it.
C20_InversionSwaps ==
    result.op = "invertConvention" =>
        /\ \A i \in 1..Len(voxelArray.data) :
              isFluid(voxelArray.data[i]) <=> ~isFluid(result.before.data[i])
        /\ fluidCount(voxelArray)
              = Len(voxelArray.data) - fluidCount(result.before)

\* a grid holding a state other than 0 and 1 was inverted
C20_WitnessOtherState ==
    /\ result.op = "invertConvention"
    /\ 2 \in {result.before.data[i] : i \in 1..Len(result.before.data)}

\* ------------------------------------------------------------------- C21
\* C21: two invertConvention calls in a row leave the grid as it was before
\* the first one: the same state array, element for element, and the same
\* dimensions.
C21_InvertTwice ==
    (result.op = "invertConvention" /\ result.second) =>
        /\ voxelArray.data = result.previous.data
        /\ <<voxelArray.nx, voxelArray.ny, voxelArray.nz>>
              = <<result.previous.nx, result.previous.ny, result.previous.nz>>

\* a 2 x 2 x 1 grid holding all three states was inverted twice
C21_Witness ==
    /\ result.op = "invertConvention"
    /\ result.second
    /\ result.previous.data = <<0, 1, 2, 1>>
    /\ result.before.data = <<1, 0, 2, 0>>
    /\ voxelArray.nx = 2 /\ voxelArray.ny = 2

\* ------------------------------------------------------------ C22 .. C25
\* a compute or computeFromFields call was made with one velocity per centre
computed ==
    /\ permResult.op # "none"
    /\ Len(permResult.velocities) = Len(permResult.cellCenters)

\* at most 1e-30 in magnitude
negligible(v) == ~DLess(Threshold, DAbs(v))

\* the ROI box of the calculator
roiBox == computeROIBounds(popts_)

\* the ROI cross-section: secondary extent times tertiary extent
crossSection ==
    DMul(DSub(popts_.meshMaxSec, popts_.meshMinSec),
         DSub(popts_.meshMaxTert, popts_.meshMinTert))

\* outlet pressure minus inlet pressure
pressureDifference ==
    DSub(popts_.fluid.pressureOutlet, popts_.fluid.pressureInlet)

permeabilityFields(r) ==
    <<r.permVolAvgMain, r.permVolAvgSecondary, r.permVolAvgTertiary,
      r.permFlowRate>>

allZero(s) == \A i \in 1..Len(s) : s[i] = DInt(0)

\* C22: degenerate inputs of compute give zeros, not failures.  When no cell
\* is selected, the four permeability fields and the fibre volume content
\* are zero; when the pressure difference is zero or at most 1e-30 in
\* magnitude, the three volume-averaged permeabilities and the flow-rate
\* permeability are zero; when the ROI cross-section is zero or at most
\* 1e-30, the flow-rate permeability is zero.  In every call the result is
\* returned, all its fields are finite, and no value that compute divided by
\* is negligible.
C22_DegenerateInputs ==
    computed =>
        /\ ~isThrown(permResult.value)
        /\ permResult.selected = <<>> =>
               /\ allZero(permeabilityFields(permResult.value))
               /\ permResult.value.fiberVolumeContent = DInt(0)
        /\ negligible(pressureDifference) =>
               allZero(permeabilityFields(permResult.value))
        /\ ~DLess(Threshold, crossSection) =>
               permResult.value.permFlowRate = DInt(0)
        /\ \A v \in permResult.divisors : ~negligible(v)
        /\ \A i \in 1..4 : isFinite(permeabilityFields(permResult.value)[i])
        /\ isFinite(permResult.value.fiberVolumeContent)

\* a selected cell with velocity, and a pressure difference of 1e-31
C22_Witness ==
    /\ computed
    /\ permResult.selected # <<>>
    /\ permResult.velocities[permResult.selected[1]][1] = DInt(2)
    /\ pressureDifference = Dbl(1, 1, 1)
    /\ allZero(permeabilityFields(permResult.value))
    /\ permResult.value.fiberVolumeContent = DInt(50)

\* cells were handed in, and none of them lies in the ROI
C22_WitnessNoCells ==
    /\ computed
    /\ permResult.cellCenters # <<>>
    /\ permResult.selected = <<>>
    /\ permResult.value = zeroResult(permResult.direction)

\* a cross-section of 1e-31 with a pressure drop: the volume-averaged
\* permeability is computed, the flow-rate permeability is left at zero
C22_WitnessNoArea ==
    /\ computed
    /\ crossSection = Dbl(1, 1, 1)
    /\ permResult.outletFlux = DInt(1)
    /\ permResult.value.permVolAvgMain = DInt(1)
    /\ permResult.value.permFlowRate = DInt(0)

\* the sum of the main-axis velocities of the first n selected cells
RECURSIVE mainVelocitySum(_)
mainVelocitySum(n) ==
    IF n = 0 THEN DInt(0)
    ELSE DAdd(mainVelocitySum(n - 1),
              permResult.velocities[permResult.selected[n]]
                                   [axisIndex(permResult.direction)])

\* the length of the ROI along the flow axis
roiLength == DSub(roiBox.maxMain, roiBox.minMain)

\* every cell has velocity 1 along the flow axis
uniformUnitFlow ==
    \A i \in 1..Len(permResult.velocities) :
        permResult.velocities[i][axisIndex(permResult.direction)] = DInt(1)

\* C23: when cells are selected and the pressure difference is not
\* negligible, permVolAvgMain = -(U * nu * density * L) / (pOut - pIn), U
\* being the mean main-axis velocity of the selected cells and L the ROI
\* length; with velocity 1 everywhere, L = 1, nu = 1, density = 1 and
\* pOut - pIn = -1 it is 1.
C23_VolumeAveragedMain ==
    (computed /\ permResult.selected # <<>> /\ ~negligible(pressureDifference))
    =>
        /\ permResult.value.permVolAvgMain =
              DNeg(DDiv(DMul(DMul(DMul(
                  DDiv(mainVelocitySum(Len(permResult.selected)),
                       DInt(Len(permResult.selected))),
                  popts_.fluid.kinematicViscosity), popts_.fluid.density),
                  roiLength), pressureDifference))
        /\ ( /\ uniformUnitFlow
             /\ roiLength = DInt(1)
             /\ popts_.fluid.kinematicViscosity = DInt(1)
             /\ popts_.fluid.density = DInt(1)
             /\ pressureDifference = DInt(-1) )
           => permResult.value.permVolAvgMain = DInt(1)

\* the unit scenario on the domain of length 2 with buffers of 1/2: one of
\* two cells is selected
C23_Witness ==
    /\ computed
    /\ Len(permResult.cellCenters) = 2
    /\ Len(permResult.selected) = 1
    /\ uniformUnitFlow
    /\ roiLength = DInt(1)
    /\ popts_.meshMaxMain = DInt(2)
    /\ popts_.fluid.kinematicViscosity = DInt(1)
    /\ popts_.fluid.density = DInt(1)
    /\ pressureDifference = DInt(-1)
    /\ permResult.value.permVolAvgMain = DInt(1)

\* a mean of 3/2 over two cells, nu = 2, density = 3: 3/2 * 2 * 3 * 1 / 1 = 9
C23_WitnessMean ==
    /\ computed
    /\ Len(permResult.selected) = 2
    /\ popts_.fluid.density = DInt(3)
    /\ permResult.value.permVolAvgMain = DInt(9)

\* centre c lies in the ROI box, axis by axis
insideBox(c, direction) ==
    /\ between(c[axisIndex(direction)], roiBox.minMain, roiBox.maxMain)
    /\ between(c[axisIndex(secondaryDirection(direction))],
               roiBox.minSec, roiBox.maxSec)
    /\ between(c[axisIndex(tertiaryDirection(direction))],
               roiBox.minTert, roiBox.maxTert)

\* C25: with fibrousRegionOnly off every cell is selected, wherever its
\* centre lies; with it on, exactly the cells whose centre lies in the ROI
\* box are selected.
C25_SelectionFollowsOption ==
    computed =>
        {permResult.selected[i] : i \in 1..Len(permResult.selected)} =
            IF popts_.fibrousRegionOnly
            THEN {i \in 1..Len(permResult.cellCenters) :
                    insideBox(permResult.cellCenters[i], permResult.direction)}
            ELSE 1..Len(permResult.cellCenters)

\* what the calculator does instead: the box decides, whatever the option
C25_BoxAlwaysDecides ==
    computed =>
        {permResult.selected[i] : i \in 1..Len(permResult.selected)} =
            {i \in 1..Len(permResult.cellCenters) :
                insideBox(permResult.cellCenters[i], permResult.direction)}

\* the option is off and a cell outside the box was left out
C25_WitnessIgnored ==
    /\ computed
    /\ ~popts_.fibrousRegionOnly
    /\ Len(permResult.cellCenters) = 2
    /\ Len(permResult.selected) = 1

\* ------------------------------------------------------------------- C24
\* the derived state computed afresh from the whole history
fresh == updateState(iterations_, permeabilities_, copts_)

\* the field of a derived state that query `op` returns
fieldOf(op, d) ==
    CASE op = "isConverged" -> d.converged
      [] op = "currentSlope" -> d.slope
      [] op = "predictedPermeability" -> d.predicted
      [] op = "predictionError" -> d.error

\* the cached derived state
cached == [slope |-> slope_, predicted |-> predicted_, error |-> error_,
           converged |-> converged_]

\* C24: in every state reached by addValue calls and queries in any order,
\* the value the latest query returned is the value a fresh computation over
\* the whole history gives, and a cache that is not marked dirty equals that
\* fresh computation; a step that returns a query result leaves the history
\* as it was, and a step that changes the history marks the cache dirty.
C24_QueriesAreFresh ==
    /\ [](/\ returned.op # "none" =>
               /\ ~dirty_
               /\ returned.value = fieldOf(returned.op, fresh)
          /\ ~dirty_ => cached = fresh)
    /\ [][/\ returned'.op # "none" =>
               UNCHANGED <<iterations_, permeabilities_>>
          /\ <<iterations_, permeabilities_>>' # <<iterations_, permeabilities_>>
               => dirty_']_vars

\* a query answered from a history longer than the window, after which the
\* cache holds a slope other than the initial 0
C24_Witness ==
    /\ returned.op = "predictedPermeability"
    /\ Len(iterations_) = MaxSamples
    /\ Len(iterations_) > copts_.window
    /\ slope_ # RInt(0)
    /\ returned.value = fresh.predicted

\* ------------------------------------------------------------------- C26
\* coordinate c lies inside the nx x ny x nz grid of tracker t
inMaskBounds(t, c) ==
    /\ 0 <= c[1] /\ c[1] < t.nx_
    /\ 0 <= c[2] /\ c[2] < t.ny_
    /\ 0 <= c[3] /\ c[3] < t.nz_

\* a tracker was built from the cell map kept in result
trackedDirectly == result.op \in {"buildFromCellMap", "regionForCell"}
                     /\ "cellMap" \in DOMAIN result

\* C26: after buildFromCellMap a cell with a coordinate component outside
\* [0,nx) x [0,ny) x [0,nz) is labelled Fibrous, and a cell inside gets the
\* entry of the region array at x + nx*(y + ny*z).
C26_OutOfBoundsIsFibrous ==
    trackedDirectly =>
        \A c \in DOMAIN result.cellMap :
            tracker.cellRegions_[c] =
                IF inMaskBounds(tracker, result.cellMap[c].coord)
                THEN tracker.regionMask_[
                         result.cellMap[c].coord[1]
                         + tracker.nx_ * (result.cellMap[c].coord[2]
                         + tracker.ny_ * result.cellMap[c].coord[3]) + 1]
                ELSE Fibrous

\* what buildFromCellMap guarantees: cells inside the grid get their entry
\* of the region array (the mask has nx*ny*nz entries)
C26_InBoundsGetEntry ==
    trackedDirectly =>
        \A c \in DOMAIN result.cellMap :
            inMaskBounds(tracker, result.cellMap[c].coord) =>
                tracker.cellRegions_[c] =
                    tracker.regionMask_[
                         result.cellMap[c].coord[1]
                         + tracker.nx_ * (result.cellMap[c].coord[2]
                         + tracker.ny_ * result.cellMap[c].coord[3]) + 1]

\* a cell at x = nx of a 2 x 2 x 1 mask was given the label of voxel (0,1,0)
C26_WitnessAliased ==
    /\ trackedDirectly
    /\ <<tracker.nx_, tracker.ny_, tracker.nz_>> = <<2, 2, 1>>
    /\ result.cellMap[0].coord = <<2, 0, 0>>
    /\ tracker.regionMask_ = <<Fibrous, BufferInlet, BufferOutlet, BufferInlet>>
    /\ tracker.cellRegions_[0] = BufferOutlet

\* ------------------------------------------------------------------- C27
\* the keys of the cell map that are in the keep set
keptKeys == {idx \in DOMAIN result.cellMap : idx \in result.keepSet}

\* the kept key with exactly j kept keys below it
keptAt(j) ==
    CHOOSE idx \in keptKeys : Cardinality({i \in keptKeys : i < idx}) = j

\* C27: filterCellMap returns a map whose keys are 0..k-1, k being the
\* number of kept cells, and whose entry j is, field for field (coordinate,
\* u, v, w, p and region), the cell of the j-th smallest kept key.
C27_DenseReindex ==
    result.op \in {"filterCellMap", "filterLargest"} =>
        /\ DOMAIN result.value = 0..(Cardinality(keptKeys) - 1)
        /\ \A j \in DOMAIN result.value :
               result.value[j] = result.cellMap[keptAt(j)]

\* cells 0 and 2 of four are dropped; cells 1 and 3 become 0 and 1 and keep
\* their velocity, pressure and region
C27_Witness ==
    /\ result.op = "filterCellMap"
    /\ DOMAIN result.cellMap = 0..3
    /\ result.keepSet = {1, 3}
    /\ DOMAIN result.value = 0..1
    /\ result.value[0].region = BufferInlet /\ result.value[0].u = 1
    /\ result.value[1].region = BufferOutlet /\ result.value[1].p = 1
    /\ result.cellMap[0].region = Fibrous
    /\ result.cellMap[2].region = BufferInlet

\* ------------------------------------------------------------ C28 .. C30
\* the positional patch names in classification order
positionalNames ==
    <<"left_x", "right_x", "front_y", "back_y", "bottom_z", "top_z", "walls">>

\* the axis of each of the six sides, and whether it is the low end
sideAxis == <<"x", "x", "y", "y", "z", "z">>
sideIsLow == <<TRUE, FALSE, TRUE, FALSE, TRUE, FALSE>>

\* the name of slot k when the flow runs along `direction`: the low side of
\* the flow axis is "inlet", its high side "outlet"
slotName(k, direction) ==
    IF k <= 6 /\ sideAxis[k] = (CASE direction = "X" -> "x"
                                  [] direction = "Y" -> "y"
                                  [] direction = "Z" -> "z")
    THEN (IF sideIsLow[k] THEN "inlet" ELSE "outlet")
    ELSE positionalNames[k]

\* a built mesh whose boundary faces were classified
classified == built /\ opts_.autoBoundaryFaceSets

\* the slots that have an entry in the patch table
presentSlots ==
    {k \in 1..7 : slotName(k, opts_.flowDirection) \in DOMAIN mesh_.boundaryPatches}

entryOf(k) == mesh_.boundaryPatches[slotName(k, opts_.flowDirection)]

extremeOf(k) ==
    IF sideIsLow[k]
    THEN MinOf({coordinate(mesh_.points[i], sideAxis[k]) : i \in 1..Len(mesh_.points)})
    ELSE MaxOf({coordinate(mesh_.points[i], sideAxis[k]) : i \in 1..Len(mesh_.points)})

\* the boundary faces (0-based indices) whose four vertices lie on side k
facesOnSide(k) ==
    {f \in mesh_.nInternalFaces..(nFaces(mesh_) - 1) :
        \A v \in 1..4 :
            coordinate(mesh_.points[mesh_.faces[f + 1][v] + 1], sideAxis[k])
                = extremeOf(k)}

\* the faces of the patch of slot k, none when the table has no such patch
facesOfSlot(k) ==
    IF k \in presentSlots
    THEN entryOf(k)[1]..(entryOf(k)[1] + entryOf(k)[2] - 1)
    ELSE {}

generatedFace(c, d) ==
    [k \in 1..4 |-> cellVertexIndices_[c][HEX_FACE_DEFS[d][k] + 1]]

\* the extreme coordinate of the eight corners of cell c on the side of
\* definition d: +x, +y, +z, -x, -y, -z
cornerExtreme(c, d) ==
    IF d <= 3
    THEN MaxOf({coordinate(mesh_.points[cellVertexIndices_[c][v] + 1],
                           <<"x", "y", "z">>[d]) : v \in 1..8})
    ELSE MinOf({coordinate(mesh_.points[cellVertexIndices_[c][v] + 1],
                           <<"x", "y", "z">>[d - 3]) : v \in 1..8})

====
